---- MODULE Spec2Model ----
(***************************************************************************)
(* Product loans: the loan transfer (stock.picking extension), the per-unit *)
(* tracking ledger (loan.tracking.detail) and the resolution wizard        *)
(* (loan.resolution.wizard), modelled as a state machine over the tables    *)
(* the code reads and writes.  An operation that raises leaves the tables   *)
(* as they were (the host transaction is rolled back) and records the       *)
(* error in `last`.                                                         *)
(***************************************************************************)
EXTENDS Integers, Sequences, FiniteSets, TLC

VARIABLES
    pickings,    \* stock.picking rows, index = id
    entries,     \* loan.tracking.detail rows, index = id
    sale_lines,  \* sale.order.line rows, index = id
    wizards,     \* loan.resolution.wizard rows (with their lines), index = id
    activities,  \* mail.activity rows
    now,         \* the clock behind fields.Datetime.now() / fields.Date.today()
    todo_matches,\* whether the activity type the sweep uses is named like 'préstamo vencido'
    locations,   \* stock.location rows made for loans, and each partner's dedicated_loan_location_id
    last         \* outcome of the last operation

vars == <<pickings, entries, sale_lines, wizards, activities, now, todo_matches,
          locations, last>>

\* ------------------------------------------------------------------ bounds
MaxPickings == 3
MaxEntries == 3
MaxWizards == 1
MaxSaleLines == 3
MaxActivities == 2
MaxNow == 2
MaxLoans == 1
MaxLedger == 1
MaxStaleWizards == 2

\* ------------------------------------------------------------- master data
Products == {"pn", "ps", "pl"}

\* product.tracking of each product (master data of the inventory engine)
Tracking(prod) ==
    CASE prod = "ps" -> "serial"
      [] prod = "pl" -> "lot"
      [] OTHER -> "none"

\* quantity the stock-availability service reports for loans at any location
AvailableQty == 3

LoanStates == {"active", "in_trial", "resolving", "partially_resolved", "completed"}

EntryStatuses == {"active", "sold", "returned_good", "returned_damaged",
                  "returned_defective", "pending_resolution"}

Returned == {"returned_good", "returned_damaged", "returned_defective"}

\* ------------------------------------------------------------ small helpers
\* an exception: its class, what it is about, the states its message names, and the
\* class of the exception it wraps
NoErr == [kind |-> "", msg |-> "", src |-> "", tgt |-> "", cause |-> ""]

Err(kind, msg) == [kind |-> kind, msg |-> msg, src |-> "", tgt |-> "", cause |-> ""]

\* the tables an operation works on
DB == [pickings |-> pickings, entries |-> entries, sale_lines |-> sale_lines,
       locations |-> locations]

Ok(db) == [ok |-> TRUE, err |-> NoErr, db |-> db]

Fail(db, e) == [ok |-> FALSE, err |-> e, db |-> db]

\* record `r` with the fields of `vals` written into it
Apply(r, vals) == [f \in DOMAIN r |-> IF f \in DOMAIN vals THEN vals[f] ELSE r[f]]

\* an exception raised inside a step ends the operation: F runs on the tables r left
\* only when r did not raise
Bind(r, F(_)) == IF r.ok THEN F(r.db) ELSE r

\* `raise e` when check e found something, else carry on with tables `db1`
Raise(db, e, db1) == IF e.kind # "" THEN Fail(db, e) ELSE Ok(db1)

RECURSIVE FirstError(_)
FirstError(errs) ==
    IF errs = <<>> THEN NoErr
    ELSE IF Head(errs).kind # "" THEN Head(errs)
    ELSE FirstError(Tail(errs))

\* ------------------------------------------------------ loan transfer state

\* valid_transitions with active -> completed let through
valid_transitions_lax(s) ==
    CASE s = "active" -> {"in_trial", "resolving", "completed"}
      [] s = "in_trial" -> {"resolving", "completed"}
      [] s = "resolving" -> {"partially_resolved", "completed"}
      [] s = "partially_resolved" -> {"resolving", "completed"}
      [] OTHER -> {}

\* valid_transitions of _validate_state_transition
valid_transitions(s) ==
    CASE s = "active" -> {"in_trial", "resolving"}
      [] s = "in_trial" -> {"resolving", "completed"}
      [] s = "resolving" -> {"partially_resolved", "completed"}
      [] s = "partially_resolved" -> {"resolving", "completed"}
      [] s = "completed" -> {}
      [] OTHER -> {}

\* a _validate_state_transition that never raises
TransitionNeverRaises(p, new_state) == FALSE

\* _validate_state_transition: TRUE when it raises
TransitionRaises(p, new_state) ==
    p.loan_state # "" /\ new_state \notin valid_transitions(p.loan_state)

\* _compute_overdue_days (is_overdue part) at day `today`
ComputeOverdue(p, today) ==
    IF p.is_loan /\ p.expected # 0
       /\ p.loan_state \in {"active", "in_trial", "partially_resolved"}
    THEN today - p.expected > 0
    ELSE FALSE

\* move.product_id._get_available_qty_for_loans(move.location_id): what the
\* stock-availability service answers; the lot-tracked product is over-reserved
AvailableForLoans(prod) == IF prod = "pl" THEN 0 - 1 ELSE AvailableQty

\* _validate_advanced_stock_availability checking the lines of quantity <= 0 too
StockRaisesEveryLine(p) ==
    \E i \in DOMAIN p.moves : p.moves[i].qty > AvailableForLoans(p.moves[i].product)

\* _validate_advanced_stock_availability: TRUE when it raises
StockRaises(p) ==
    \E i \in DOMAIN p.moves :
        p.moves[i].qty > 0 /\ p.moves[i].qty > AvailableForLoans(p.moves[i].product)

\* _check_loan_requirements: the error it raises on picking p, NoErr if none
CheckLoanRequirements(p) ==
    IF ~p.is_loan THEN NoErr
    ELSE IF p.partner = 0 THEN Err("UserError", "no_partner")
    ELSE IF ~p.type_internal THEN Err("UserError", "not_internal")
    ELSE IF ~p.bypass THEN
        (IF StockRaises(p) THEN Err("UserError", "stock") ELSE NoErr)
    ELSE IF p.bypass_reason = "" THEN Err("UserError", "no_bypass_reason")
    ELSE NoErr

\* the fields _check_loan_requirements is declared on
ConstrainedPickingFields == {"partner", "is_loan", "type_internal", "type_loan_wh", "bypass"}

\* the fields the stored is_overdue is recomputed on
StoredOverdueDeps == {"expected", "loan_state"}

\* picking p after super().write(vals): the values stored, is_overdue recomputed
\* when one of its dependencies was written
Written(p, vals, today) ==
    IF DOMAIN vals \cap StoredOverdueDeps # {}
    THEN [Apply(p, vals) EXCEPT !.is_overdue = ComputeOverdue(Apply(p, vals), today)]
    ELSE Apply(p, vals)

\* StockPicking.write on picking pid at day `today`
PickingWrite(db, pid, vals, today) ==
    IF /\ "loan_state" \in DOMAIN vals
       /\ db.pickings[pid].is_loan
       /\ TransitionRaises(db.pickings[pid], vals.loan_state)
    THEN Fail(db, [kind |-> "ValidationError", msg |-> "transition",
                   src |-> db.pickings[pid].loan_state, tgt |-> vals.loan_state,
                   cause |-> ""])
    ELSE Raise(db,
               IF DOMAIN vals \cap ConstrainedPickingFields # {}
               THEN CheckLoanRequirements(Written(db.pickings[pid], vals, today))
               ELSE NoErr,
               [db EXCEPT !.pickings[pid] = Written(db.pickings[pid], vals, today)])

\* location_dest_id as the vals or the picking type give it; moves_dest is the
\* location_dest_id of every movement line of the transfer
DefaultDest == [kind |-> "stock", partner |-> 0]

\* the row super().create(vals) stores: loan_state takes its default, is_overdue is
\* computed
NewPicking(vals, today) ==
    LET p0 == [is_loan |-> vals.is_loan, loan_state |-> "active", state |-> "draft",
               origin |-> vals.origin, origin_name |-> vals.origin_name,
               type_loan_wh |-> vals.type_loan_wh, type_internal |-> vals.type_internal,
               partner |-> vals.partner, owner |-> vals.owner,
               bypass |-> vals.bypass, bypass_reason |-> vals.bypass_reason,
               expected |-> vals.expected, is_overdue |-> FALSE,
               date_done |-> 0, moves |-> vals.moves,
               create_date |-> today, dest |-> DefaultDest, moves_dest |-> DefaultDest]
    IN [p0 EXCEPT !.is_overdue = ComputeOverdue(p0, today)]

\* the search_count of _get_location_strategy: the loans of the partner of picking
\* pid created in the 365 days up to `today`
LoanFrequency(db, pid, today) ==
    Cardinality({i \in DOMAIN db.pickings :
                    /\ db.pickings[i].partner = db.pickings[pid].partner
                    /\ db.pickings[i].is_loan
                    /\ db.pickings[i].create_date >= today - 365})

\* _get_location_strategy: the partner's dedicated location or the shared one
GetLocationStrategy(db, pid, today) ==
    IF LoanFrequency(db, pid, today) >= 3
    THEN [kind |-> "dedicated", partner |-> db.pickings[pid].partner]
    ELSE [kind |-> "shared", partner |-> 0]

\* no location made for loans yet, no partner with a dedicated location
NoLocations == [rows |-> <<>>, dedicated |-> <<>>]

\* partner.dedicated_loan_location_id: the id of the row, 0 when not set
DedicatedOf(loc, partner) ==
    IF partner \in DOMAIN loc.dedicated THEN loc.dedicated[partner] ELSE 0

\* _get_or_create_dedicated_location creating a location on every call
DedicatedAlwaysCreated(loc, partner) ==
    [rows |-> Append(loc.rows, [kind |-> "dedicated", partner |-> partner]),
     dedicated |-> [q \in DOMAIN loc.dedicated \cup {partner} |->
                       IF q = partner THEN Len(loc.rows) + 1 ELSE loc.dedicated[q]]]

\* ResPartner._get_or_create_dedicated_location: the location table after the call
\* (a picking type of a loan warehouse implies that the search finds the warehouse)
GetOrCreateDedicatedLocation(loc, partner) ==
    IF DedicatedOf(loc, partner) # 0 THEN loc
    ELSE [rows |-> Append(loc.rows, [kind |-> "dedicated", partner |-> partner]),
          dedicated |-> [q \in DOMAIN loc.dedicated \cup {partner} |->
                            IF q = partner THEN Len(loc.rows) + 1 ELSE loc.dedicated[q]]]

\* _get_shared_temporary_location: the location table after the call; the search is
\* by name under the loan warehouse's stock location
GetSharedTemporaryLocation(loc) ==
    IF \E i \in DOMAIN loc.rows : loc.rows[i].kind = "shared" THEN loc
    ELSE [loc EXCEPT !.rows = Append(loc.rows, [kind |-> "shared", partner |-> 0])]

\* the location table once _get_location_strategy fetched the location it returns
StrategyLocations(db, pid, today) ==
    IF LoanFrequency(db, pid, today) >= 3
    THEN GetOrCreateDedicatedLocation(db.locations, db.pickings[pid].partner)
    ELSE GetSharedTemporaryLocation(db.locations)

\* _setup_loan_location: the assignment of location_dest_id goes through write, which
\* drops it from vals on a loan when the context has from_loans_menu; the movement
\* lines are written directly
SetupLoanLocation(db, pid, today, from_loans_menu) ==
    IF db.pickings[pid].partner = 0 THEN Ok(db)
    ELSE Ok([db EXCEPT !.pickings[pid] =
                [@ EXCEPT !.dest = IF from_loans_menu /\ db.pickings[pid].is_loan
                                   THEN @ ELSE GetLocationStrategy(db, pid, today),
                          !.moves_dest = GetLocationStrategy(db, pid, today)],
                      !.locations = StrategyLocations(db, pid, today)])

\* StockPicking.create from `vals` at day `today`, with or without from_loans_menu
\* in the context; the new id is Len(pickings)+1
PickingCreateCtx(db, vals, today, from_loans_menu) ==
    Bind(Raise(db, CheckLoanRequirements(NewPicking(vals, today)),
               [db EXCEPT !.pickings = Append(db.pickings, NewPicking(vals, today))]),
         LAMBDA d : IF d.pickings[Len(d.pickings)].type_loan_wh
                    THEN Bind(PickingWrite(d, Len(d.pickings), [is_loan |-> TRUE], today),
                              LAMBDA d2 : SetupLoanLocation(d2, Len(d2.pickings), today,
                                                            from_loans_menu))
                    ELSE Ok(d))

\* StockPicking.create called without from_loans_menu in the context
PickingCreate(db, vals, today) == PickingCreateCtx(db, vals, today, FALSE)

\* ------------------------------------------------------------ tracking ledger

\* _check_tracking_consistency without the quantity check of serial products
CheckTrackingNoSerialQty(e) ==
    IF Tracking(e.product) \in {"serial", "lot"} THEN
        (IF e.lot = 0 THEN Err("ValidationError", "lot_needs_lot") ELSE NoErr)
    ELSE IF e.lot # 0 THEN Err("ValidationError", "untracked_has_lot")
    ELSE NoErr

\* _check_tracking_consistency: the error it raises on entry e, NoErr if none
CheckTrackingConsistency(e) ==
    IF Tracking(e.product) = "serial" THEN
        (IF e.lot = 0 THEN Err("ValidationError", "serial_needs_lot")
         ELSE IF e.quantity # 1 THEN Err("ValidationError", "serial_qty")
         ELSE NoErr)
    ELSE IF Tracking(e.product) = "lot" THEN
        (IF e.lot = 0 THEN Err("ValidationError", "lot_needs_lot") ELSE NoErr)
    ELSE IF e.lot # 0 THEN Err("ValidationError", "untracked_has_lot")
    ELSE NoErr


\* _check_resolution_consistency without the check of returned entries
CheckResolutionSoldOnly(e) ==
    IF e.status = "sold" /\ e.sale_line = 0
    THEN Err("ValidationError", "sold_needs_sale_line")
    ELSE NoErr

\* _check_resolution_consistency, the two checks: the error raised, NoErr if none
CheckResolutionConsistency(e) ==
    IF e.status = "sold" /\ e.sale_line = 0
    THEN Err("ValidationError", "sold_needs_sale_line")
    ELSE IF e.status \in Returned /\ e.return_picking = 0
    THEN Err("ValidationError", "returned_needs_return_picking")
    ELSE NoErr

\* _check_resolution_consistency, its last statement: stamp a missing resolution_date
StampResolutionDate(e, t) ==
    IF e.status # "active" /\ e.resolution_date = 0
    THEN [e EXCEPT !.resolution_date = t]
    ELSE e

TrackingFields == {"quantity", "product", "lot"}

ResolutionFields == {"status", "resolution_date", "sale_line", "return_picking"}


\* the constraints the ORM runs on entry e after a create/write touching `fields`:
\* the first error raised, NoErr if none
EntryCheck(e, fields) ==
    FirstError(<<IF fields \cap TrackingFields # {}
                 THEN CheckTrackingConsistency(e) ELSE NoErr,
                 IF fields \cap ResolutionFields # {}
                 THEN CheckResolutionConsistency(e) ELSE NoErr>>)

\* entry e as stored once the constraints passed
Stored(e, fields, t) ==
    IF fields \cap ResolutionFields # {} THEN StampResolutionDate(e, t) ELSE e

\* loan.tracking.detail write
EntryWrite(db, eid, vals, t) ==
    Raise(db, EntryCheck(Apply(db.entries[eid], vals), DOMAIN vals),
          [db EXCEPT !.entries[eid] = Stored(Apply(db.entries[eid], vals), DOMAIN vals, t)])

AllEntryFields == {"picking", "product", "lot", "quantity", "status", "loan_date",
                   "resolution_date", "sale_line", "sale_price", "return_picking", "notes"}

\* loan.tracking.detail create (every constraint runs on create)
EntryCreate(db, e, t) ==
    Raise(db, EntryCheck(e, AllEntryFields),
          [db EXCEPT !.entries = Append(db.entries, Stored(e, AllEntryFields, t))])

\* action_mark_as_sold without its check of the status
MarkAsSoldAnyStatus(db, eid, sale_line, sale_price, t) ==
    EntryWrite(db, eid,
               [status |-> "sold", sale_line |-> sale_line,
                sale_price |-> IF sale_price # 0 THEN sale_price
                               ELSE IF sale_line # 0 THEN db.sale_lines[sale_line].price
                               ELSE 0,
                resolution_date |-> t], t)

\* action_mark_as_sold; sale_line = 0 is an empty sale.order.line recordset
MarkAsSold(db, eid, sale_line, sale_price, t) ==
    IF db.entries[eid].status # "active"
    THEN Fail(db, Err("UserError", "not_active"))
    ELSE EntryWrite(db, eid,
                    [status |-> "sold", sale_line |-> sale_line,
                     sale_price |-> IF sale_price # 0 THEN sale_price
                                    ELSE IF sale_line # 0 THEN db.sale_lines[sale_line].price
                                    ELSE 0,
                     resolution_date |-> t], t)

\* a status_mapping that knows returned_good only
status_mapping_good(condition) == "returned_good"

\* status_mapping.get(condition, 'returned_good')
status_mapping(condition) ==
    CASE condition = "good" -> "returned_good"
      [] condition = "damaged" -> "returned_damaged"
      [] condition = "defective" -> "returned_defective"
      [] OTHER -> "returned_good"

\* action_mark_as_returned
MarkAsReturned(db, eid, return_picking, condition, t) ==
    IF db.entries[eid].status \notin {"active", "pending_resolution"}
    THEN Fail(db, Err("UserError", "not_active"))
    ELSE EntryWrite(db, eid,
                    [status |-> status_mapping(condition),
                     return_picking |-> return_picking,
                     resolution_date |-> t], t)

\* _order = 'loan_date desc': rows of one loan_date are listed in any order
ListedByDate(db, a, b) == db.entries[a].loan_date >= db.entries[b].loan_date

\* _order = 'loan_date desc, id desc': entry a is listed before entry b
ListedBefore(db, a, b) ==
    \/ db.entries[a].loan_date > db.entries[b].loan_date
    \/ db.entries[a].loan_date = db.entries[b].loan_date /\ a > b

\* the ids of S in listing order
RECURSIVE Listing(_, _)
Listing(db, S) ==
    IF S = {} THEN <<>>
    ELSE LET first == CHOOSE a \in S : \A b \in S \ {a} : ListedBefore(db, a, b)
         IN <<first>> \o Listing(db, S \ {first})

\* every order in which a search may list the ids of S under _order
Listings(db, S) ==
    {L \in [1..Cardinality(S) -> S] :
        \A i, j \in 1..Cardinality(S) : i < j => ListedBefore(db, L[i], L[j])}

\* search([('picking_id','=',pid), ('status','=','active')])
ActiveOf(db, pid) ==
    {i \in DOMAIN db.entries : db.entries[i].picking = pid /\ db.entries[i].status = "active"}

EntriesOf(db, pid) == {i \in DOMAIN db.entries : db.entries[i].picking = pid}

\* the rows _create_tracking_details builds for the moves of picking pid
RECURSIVE TrackingRows(_, _, _, _)
TrackingRows(p, pid, moves, t) ==
    IF moves = <<>> THEN <<>>
    ELSE LET m == Head(moves)
             loan_date == IF p.date_done # 0 THEN p.date_done ELSE t
             row(lot, q) == [picking |-> pid, product |-> m.product, lot |-> lot,
                             quantity |-> q, status |-> "active", loan_date |-> loan_date,
                             resolution_date |-> 0, sale_line |-> 0, sale_price |-> 0,
                             return_picking |-> 0, notes |-> ""]
             here == IF Tracking(m.product) = "serial"
                     THEN (IF m.lot # 0 /\ m.qty_done > 0 THEN <<row(m.lot, 1)>> ELSE <<>>)
                     ELSE (IF m.qty_done > 0 THEN <<row(0, m.qty_done)>> ELSE <<>>)
         IN here \o TrackingRows(p, pid, Tail(moves), t)


\* create(list of rows): all rows or none
RECURSIVE EntryCreateAll(_, _, _)
EntryCreateAll(db, rows, t) ==
    IF rows = <<>> THEN Ok(db)
    ELSE Bind(EntryCreate(db, Head(rows), t),
              LAMBDA d : EntryCreateAll(d, Tail(rows), t))

\* _create_tracking_details
CreateTrackingDetails(db, pid, t) ==
    EntryCreateAll(db, TrackingRows(db.pickings[pid], pid, db.pickings[pid].moves, t), t)

\* --------------------------------------------------- return reconciliation

\* mark every record of `ids` returned (condition good), in order
RECURSIVE MarkAllReturned(_, _, _, _)
MarkAllReturned(db, ids, rid, t) ==
    IF ids = <<>> THEN Ok(db)
    ELSE Bind(MarkAsReturned(db, Head(ids), rid, "good", t),
              LAMBDA d : MarkAllReturned(d, Tail(ids), rid, t))

\* the loop over tracking_records marking every record it meets returned, whatever
\* its quantity
RECURSIVE ConsumeWhole(_, _, _, _, _)
ConsumeWhole(db, ids, remaining, rid, t) ==
    IF ids = <<>> \/ remaining <= 0 THEN Ok(db)
    ELSE Bind(MarkAsReturned(db, Head(ids), rid, "good", t),
              LAMBDA d : ConsumeWhole(d, Tail(ids),
                                      remaining - db.entries[Head(ids)].quantity, rid, t))

\* the loop over tracking_records of a non-serial product, `remaining` still to consume
RECURSIVE ConsumeReturned(_, _, _, _, _)
ConsumeReturned(db, ids, remaining, rid, t) ==
    IF ids = <<>> \/ remaining <= 0 THEN Ok(db)
    ELSE IF db.entries[Head(ids)].quantity <= remaining
    THEN Bind(MarkAsReturned(db, Head(ids), rid, "good", t),
              LAMBDA d : ConsumeReturned(d, Tail(ids),
                                         remaining - db.entries[Head(ids)].quantity, rid, t))
    ELSE Bind(EntryCreate(db, [db.entries[Head(ids)] EXCEPT !.quantity = remaining,
                                                            !.status = "returned_good",
                                                            !.return_picking = rid,
                                                            !.resolution_date = t], t),
              LAMBDA d : EntryWrite(d, Head(ids),
                             [quantity |-> db.entries[Head(ids)].quantity - remaining], t))

\* the body of the loop with the serial search not filtering on the lot
ReconcileMoveAnyLot(db, m, orig, rid, t) ==
    IF m.qty_done <= 0 THEN Ok(db)
    ELSE IF Tracking(m.product) = "serial"
    THEN (IF m.lot # 0 /\ m.qty_done > 0
          THEN MarkAllReturned(db, Listing(db, {i \in ActiveOf(db, orig) :
                                                   db.entries[i].product = m.product}), rid, t)
          ELSE Ok(db))
    ELSE ConsumeReturned(db, Listing(db, {i \in ActiveOf(db, orig) :
                                             db.entries[i].product = m.product}),
                         m.qty_done, rid, t)

\* the body of the loop with the searches not filtering on the original loan
ReconcileMoveAnyLoan(db, m, orig, rid, t) ==
    IF m.qty_done <= 0 THEN Ok(db)
    ELSE IF Tracking(m.product) = "serial"
    THEN (IF m.lot # 0 /\ m.qty_done > 0
          THEN MarkAllReturned(db, Listing(db, {i \in DOMAIN db.entries :
                                                   /\ db.entries[i].status = "active"
                                                   /\ db.entries[i].product = m.product
                                                   /\ db.entries[i].lot = m.lot}), rid, t)
          ELSE Ok(db))
    ELSE ConsumeReturned(db, Listing(db, {i \in DOMAIN db.entries :
                                             /\ db.entries[i].status = "active"
                                             /\ db.entries[i].product = m.product}),
                         m.qty_done, rid, t)

\* the body of the loop of _update_loan_tracking_on_return, for move m
ReconcileMove(db, m, orig, rid, t) ==
    IF m.qty_done <= 0 THEN Ok(db)
    ELSE IF Tracking(m.product) = "serial"
    THEN (IF m.lot # 0 /\ m.qty_done > 0
          THEN MarkAllReturned(db, Listing(db, {i \in ActiveOf(db, orig) :
                                                   /\ db.entries[i].product = m.product
                                                   /\ db.entries[i].lot = m.lot}), rid, t)
          ELSE Ok(db))
    ELSE ConsumeReturned(db, Listing(db, {i \in ActiveOf(db, orig) :
                                             db.entries[i].product = m.product}),
                         m.qty_done, rid, t)

\* the loop of _update_loan_tracking_on_return over the moves of return picking rid
RECURSIVE ReconcileMoves(_, _, _, _, _)
ReconcileMoves(db, moves, orig, rid, t) ==
    IF moves = <<>> THEN Ok(db)
    ELSE Bind(ReconcileMove(db, Head(moves), orig, rid, t),
              LAMBDA d : ReconcileMoves(d, Tail(moves), orig, rid, t))

\* StockPicking._update_original_loan_state
UpdateOriginalLoanState(db, orig, t) ==
    IF ActiveOf(db, orig) = {}
    THEN PickingWrite(db, orig, [loan_state |-> "completed"], t)
    ELSE IF Cardinality(ActiveOf(db, orig)) < Cardinality(EntriesOf(db, orig))
    THEN PickingWrite(db, orig, [loan_state |-> "partially_resolved"], t)
    ELSE Ok(db)


\* _update_loan_tracking_on_return
UpdateLoanTrackingOnReturn(db, rid, t) ==
    IF db.pickings[rid].origin = 0 THEN Ok(db)
    ELSE Bind(ReconcileMoves(db, db.pickings[rid].moves, db.pickings[rid].origin, rid, t),
              LAMBDA d : UpdateOriginalLoanState(d, db.pickings[rid].origin, t))

\* the inventory engine's confirmation (super().button_validate()): the entered
\* quantities are processed; when none was entered, the requested ones are
RECURSIVE AllZeroDone(_)
AllZeroDone(moves) ==
    moves = <<>> \/ (Head(moves).qty_done = 0 /\ AllZeroDone(Tail(moves)))

BaseValidate(p, t) ==
    [p EXCEPT !.state = "done", !.date_done = t,
              !.moves = IF AllZeroDone(p.moves)
                        THEN [i \in DOMAIN p.moves |->
                                 [p.moves[i] EXCEPT !.qty_done = p.moves[i].qty]]
                        ELSE p.moves]

\* _trigger_quantity_recalculation: every failure inside it is swallowed and it
\* writes no stored field of these tables
TriggerQuantityRecalculation(db, pid) == db


\* the hook of button_validate once super() returned: a done return is reconciled
AfterValidate(db, pid, t) ==
    IF db.pickings[pid].state = "done" /\ db.pickings[pid].origin # 0
    THEN UpdateLoanTrackingOnReturn(db, pid, t)
    ELSE Ok(db)

\* StockPicking.button_validate
ButtonValidate(db, pid, t) ==
    Bind(AfterValidate([db EXCEPT !.pickings[pid] = BaseValidate(db.pickings[pid], t)], pid, t),
         LAMBDA d : Ok(TriggerQuantityRecalculation(d, pid)))

\* ------------------------------------------------------- resolution wizard

\* default_get: the lines built from the active entries of picking pid; the lines
\* are built only when the context carries 'picking_id'
DefaultLines(db, pid, ctx_has_picking_id) ==
    IF ctx_has_picking_id /\ db.pickings[pid].is_loan
    THEN LET ids == Listing(db, ActiveOf(db, pid))
         IN [i \in DOMAIN ids |->
                [entry |-> ids[i], product |-> db.entries[ids[i]].product,
                 lot |-> db.entries[ids[i]].lot, loaned_qty |-> db.entries[ids[i]].quantity,
                 resolution_type |-> "keep_loan", qty_to_resolve |-> db.entries[ids[i]].quantity,
                 unit_price |-> 0, return_condition |-> "good"]]
    ELSE <<>>

\* _check_quantity_consistency and _check_sale_price of a wizard line
LineConstraint(l) ==
    IF l.qty_to_resolve > l.loaned_qty THEN Err("ValidationError", "qty_gt_loaned")
    ELSE IF l.qty_to_resolve <= 0 THEN Err("ValidationError", "qty_not_positive")
    ELSE IF Tracking(l.product) = "serial" /\ l.qty_to_resolve # 1
    THEN Err("ValidationError", "serial_qty")
    ELSE IF l.resolution_type = "buy" /\ l.unit_price <= 0
    THEN Err("ValidationError", "price_not_positive")
    ELSE NoErr

\* _validate_resolution: the error it raises, NoErr if none
ValidateResolution(lines) ==
    IF lines = <<>> THEN Err("UserError", "no_lines")
    ELSE IF \E i \in DOMAIN lines : lines[i].resolution_type = ""
    THEN Err("UserError", "no_resolution_type")
    ELSE LET q == FirstError([i \in DOMAIN lines |->
                     IF lines[i].qty_to_resolve <= 0 THEN Err("UserError", "qty_not_positive")
                     ELSE IF lines[i].qty_to_resolve > lines[i].loaned_qty
                     THEN Err("UserError", "qty_gt_loaned")
                     ELSE NoErr])
         IN IF q.kind # "" THEN q
            ELSE IF \E i \in DOMAIN lines :
                       lines[i].resolution_type = "buy" /\ lines[i].unit_price <= 0
            THEN Err("UserError", "price_not_positive")
            ELSE NoErr

\* resolution_line_ids.filtered(lambda l: l.resolution_type == rtype)
LinesOfType(lines, rtype) == SelectSeq(lines, LAMBDA l : l.resolution_type = rtype)

\* the grouping key of _create_sale_order
GroupKey(l) ==
    IF Tracking(l.product) = "serial"
    THEN <<l.product, l.unit_price, l.lot>>
    ELSE <<l.product, l.unit_price>>

\* grouped_lines of _create_sale_order, in insertion order
RECURSIVE GroupLines(_, _)
GroupLines(lines, groups) ==
    IF lines = <<>> THEN groups
    ELSE LET l == Head(lines)
             k == GroupKey(l)
             at == {i \in DOMAIN groups : groups[i].key = k}
         IN IF at = {}
            THEN GroupLines(Tail(lines),
                     Append(groups, [key |-> k, product |-> l.product,
                                     qty |-> l.qty_to_resolve, price |-> l.unit_price,
                                     lot |-> l.lot]))
            ELSE LET i == CHOOSE j \in at : TRUE
                 IN GroupLines(Tail(lines),
                        [groups EXCEPT ![i].qty = groups[i].qty + l.qty_to_resolve])

NextOrderId(db) ==
    IF db.sale_lines = <<>> THEN 1
    ELSE 1 + (CHOOSE n \in {db.sale_lines[i].order : i \in DOMAIN db.sale_lines} :
                 \A i \in DOMAIN db.sale_lines : db.sale_lines[i].order <= n)

\* _create_sale_order: one sale.order for the wizard's partner with one line per group
CreateSaleOrder(db, wz, buy_lines) ==
    LET groups == GroupLines(buy_lines, <<>>)
        oid == NextOrderId(db)
        new == [i \in DOMAIN groups |->
                   [order |-> oid, partner |-> db.pickings[wz.picking].owner,
                    product |-> groups[i].product, qty |-> groups[i].qty,
                    price |-> groups[i].price, lot |-> groups[i].lot]]
    IN [db EXCEPT !.sale_lines = db.sale_lines \o new]

\* sale_order.order_line.filtered(...)[:1] of _process_sales: the first line of order
\* oid with the product of wizard line l whose name holds l's lot name; 0 when none
MatchingSaleLine(db, oid, l) ==
    LET cand == {i \in DOMAIN db.sale_lines :
                    /\ db.sale_lines[i].order = oid
                    /\ db.sale_lines[i].product = l.product
                    /\ (l.lot = 0 \/ db.sale_lines[i].lot = l.lot)}
    IN IF cand = {} THEN 0 ELSE CHOOSE i \in cand : \A j \in cand : i <= j


RECURSIVE MarkSoldLines(_, _, _, _)
MarkSoldLines(db, oid, buy_lines, t) ==
    IF buy_lines = <<>> THEN Ok(db)
    ELSE Bind(MarkAsSold(db, Head(buy_lines).entry,
                         MatchingSaleLine(db, oid, Head(buy_lines)),
                         Head(buy_lines).unit_price, t),
              LAMBDA d : MarkSoldLines(d, oid, Tail(buy_lines), t))

\* _process_sales
ProcessSales(db, wz, lines, t) ==
    IF LinesOfType(lines, "buy") = <<>> THEN Ok(db)
    ELSE MarkSoldLines(CreateSaleOrder(db, wz, LinesOfType(lines, "buy")), NextOrderId(db),
                       LinesOfType(lines, "buy"), t)

\* _create_return_picking: the created and confirmed return picking is the last row
CreateReturnPicking(db, wz, return_lines, t) ==
    Bind(PickingCreate(db,
             [is_loan |-> FALSE, origin |-> 0, origin_name |-> wz.picking,
              type_loan_wh |-> db.pickings[wz.picking].type_loan_wh,
              type_internal |-> db.pickings[wz.picking].type_internal,
              partner |-> 0, owner |-> db.pickings[wz.picking].owner,
              bypass |-> FALSE, bypass_reason |-> "", expected |-> 0,
              moves |-> [i \in DOMAIN return_lines |->
                            [product |-> return_lines[i].product,
                             lot |-> return_lines[i].lot,
                             qty |-> return_lines[i].qty_to_resolve,
                             qty_done |-> 0]]], t),
         LAMBDA d : Ok([d EXCEPT !.pickings[Len(d.pickings)].state = "confirmed"]))

RECURSIVE MarkPendingLines(_, _, _)
MarkPendingLines(db, return_lines, t) ==
    IF return_lines = <<>> THEN Ok(db)
    ELSE Bind(EntryWrite(db, Head(return_lines).entry,
                         [status |-> "pending_resolution",
                          notes |-> "return:" \o Head(return_lines).return_condition], t),
              LAMBDA d : MarkPendingLines(d, Tail(return_lines), t))

\* _process_returns
ProcessReturns(db, wz, lines, t) ==
    IF LinesOfType(lines, "return") = <<>> THEN Ok(db)
    ELSE Bind(CreateReturnPicking(db, wz, LinesOfType(lines, "return"), t),
              LAMBDA d : MarkPendingLines(d, LinesOfType(lines, "return"), t))

\* _process_continued_loans writing a status along with the note
RECURSIVE ProcessContinuedAsPending(_, _, _)
ProcessContinuedAsPending(db, keep_lines, t) ==
    IF keep_lines = <<>> THEN Ok(db)
    ELSE Bind(EntryWrite(db, Head(keep_lines).entry,
                         [notes |-> "extended", status |-> "pending_resolution"], t),
              LAMBDA d : ProcessContinuedAsPending(d, Tail(keep_lines), t))

\* _process_continued_loans
RECURSIVE ProcessContinuedLoans(_, _, _)
ProcessContinuedLoans(db, keep_lines, t) ==
    IF keep_lines = <<>> THEN Ok(db)
    ELSE Bind(EntryWrite(db, Head(keep_lines).entry, [notes |-> "extended"], t),
              LAMBDA d : ProcessContinuedLoans(d, Tail(keep_lines), t))

\* _update_original_loan_state writing completed whatever was kept
WizardCompletesAlways(db, wz, lines, t) ==
    PickingWrite(db, wz.picking, [loan_state |-> "completed"], t)

\* LoanResolutionWizard._update_original_loan_state
WizardUpdateOriginalLoanState(db, wz, lines, t) ==
    PickingWrite(db, wz.picking,
                 [loan_state |-> IF LinesOfType(lines, "keep_loan") # <<>>
                                 THEN "partially_resolved" ELSE "completed"], t)

\* the try block of action_process_resolution
ResolutionSteps(db, wz, lines, t) ==
    Bind(Bind(Bind(ProcessSales(db, wz, lines, t),
                   LAMBDA d : ProcessReturns(d, wz, lines, t)),
              LAMBDA d : ProcessContinuedLoans(d, LinesOfType(lines, "keep_loan"), t)),
         LAMBDA d : WizardUpdateOriginalLoanState(d, wz, lines, t))

\* action_process_resolution without its except clause
AsRaised(r) == r

\* the except clause of action_process_resolution: whatever was raised is raised
\* again as a UserError
AsUserError(r) ==
    IF r.ok THEN r
    ELSE Fail(r.db, [kind |-> "UserError", msg |-> r.err.msg, src |-> r.err.src,
                     tgt |-> r.err.tgt, cause |-> r.err.kind])

\* action_process_resolution going straight to its try block
ProcessResolutionUnchecked(db, wz, lines, t) ==
    AsUserError(ResolutionSteps(db, wz, lines, t))

\* saving the form (the line constraints) and action_process_resolution
ProcessResolution(db, wz, lines, t) ==
    Bind(Bind(Raise(db, FirstError([i \in DOMAIN lines |-> LineConstraint(lines[i])]), db),
              LAMBDA d : Raise(d, ValidateResolution(lines), d)),
         LAMBDA d : AsUserError(ResolutionSteps(d, wz, lines, t)))


\* ------------------------------------------------- overdue sweep (cron job)

\* the search of _create_overdue_activity: an activity on transfer pid, of a type
\* named like 'préstamo vencido', whose deadline has not passed
ExistingActivity(acts, pid, today) ==
    \E a \in DOMAIN acts : /\ acts[a].res_id = pid
                           /\ acts[a].type_named_overdue
                           /\ acts[a].date_deadline >= today

\* _create_overdue_activity; the activity gets the to-do type, whose name is like
\* 'préstamo vencido' or not (`named`)
CreateOverdueActivity(acts, pid, today, named) ==
    IF ExistingActivity(acts, pid, today) THEN acts
    ELSE Append(acts, [res_id |-> pid, type_named_overdue |-> named,
                       date_deadline |-> today])

\* the search of _cron_check_overdue_loans
OverduePickings(db) ==
    {i \in DOMAIN db.pickings :
        /\ db.pickings[i].is_overdue
        /\ db.pickings[i].loan_state \in {"active", "in_trial", "partially_resolved"}}

\* the loop of _cron_check_overdue_loans over the transfers `ids`
RECURSIVE SweepOverdue(_, _, _, _)
SweepOverdue(acts, ids, today, named) ==
    IF ids = {} THEN acts
    ELSE LET pid == CHOOSE i \in ids : \A j \in ids : i <= j
         IN SweepOverdue(CreateOverdueActivity(acts, pid, today, named), ids \ {pid},
                         today, named)

\* ------------------------------------------------------------------ actions

\* the tables of r are committed; when r raised, the transaction is rolled back
Commit(r) ==
    /\ pickings' = IF r.ok THEN r.db.pickings ELSE pickings
    /\ entries' = IF r.ok THEN r.db.entries ELSE entries
    /\ sale_lines' = IF r.ok THEN r.db.sale_lines ELSE sale_lines
    /\ locations' = IF r.ok THEN r.db.locations ELSE locations

\* what `last` keeps of an operation: the picking and wizard it ran on, the
\* loan_state before it and the one it asked for, whether it raised, and its inputs
Outcome(op, r, pid, wid, src, tgt, info) ==
    [op |-> op, ok |-> r.ok, err |-> r.err, pid |-> pid, wid |-> wid,
     src |-> src, tgt |-> tgt, info |-> info]

\* the moves a transfer is created with: <<product, lot, requested quantity>>
Move(prod, lot, qty) == [product |-> prod, lot |-> lot, qty |-> qty, qty_done |-> 0]

LoanMoves ==
    { <<Move("pn", 0, 1), Move("pn", 0, 1), Move("pn", 0, 1)>>,
      <<Move("ps", 1, 1)>>,
      <<Move("ps", 1, 1), Move("pn", 0, 2)>> }

\* how a transfer is created: by a type of the loan warehouse (flagged by create),
\* flagged is_loan by the caller's vals, or as a plain transfer
Headers ==
    { [type_loan_wh |-> TRUE, is_loan |-> FALSE, partner |-> 1],
      [type_loan_wh |-> FALSE, is_loan |-> TRUE, partner |-> 1],
      [type_loan_wh |-> FALSE, is_loan |-> FALSE, partner |-> 0],
      [type_loan_wh |-> TRUE, is_loan |-> FALSE, partner |-> 0] }

LoanHeaders == {h \in Headers : h.partner # 0}

PickingVals(h, moves, expected) ==
    [is_loan |-> h.is_loan, origin |-> 0, origin_name |-> 0,
     type_loan_wh |-> h.type_loan_wh, type_internal |-> TRUE,
     partner |-> h.partner, owner |-> h.partner,
     bypass |-> FALSE, bypass_reason |-> "", expected |-> expected, moves |-> moves]

\* the transfers that are not returns
Originals == {i \in DOMAIN pickings : pickings[i].origin = 0 /\ pickings[i].origin_name = 0}

\* the transfers flagged as loans that are not returns
Loans == {i \in Originals : pickings[i].is_loan}

\* a transfer that is not a return is created, due back on day `expected` (0: no date)
CreatePicking(h, moves, expected) ==
    /\ Len(pickings) < MaxPickings
    /\ Cardinality(Originals) < MaxLoans
    /\ \E r \in {PickingCreate(DB, PickingVals(h, moves, expected), now)} :
          /\ Commit(r)
          /\ last' = Outcome("create", r, Len(pickings) + 1, 0, "", "", <<>>)
    /\ UNCHANGED <<wizards, activities, now, todo_matches>>

\* a return transfer of loan `orig` is created by a collaborator, linked to it
\* (_setup_loan_return_hooks) and carrying one move of the loan's moves
CreateReturn(orig, m, qty) ==
    /\ Len(pickings) < MaxPickings
    /\ orig \in Loans
    /\ pickings[orig].state = "done"
    /\ m \in DOMAIN pickings[orig].moves
    /\ qty \in 1..pickings[orig].moves[m].qty
    /\ \E r \in {Bind(PickingCreate(DB,
                         PickingVals([type_loan_wh |-> FALSE, is_loan |-> FALSE, partner |-> 0],
                                     <<Move(pickings[orig].moves[m].product,
                                            pickings[orig].moves[m].lot, qty)>>, 0), now),
                      LAMBDA d : PickingWrite(d, Len(d.pickings), [origin |-> orig], now))} :
          /\ Commit(r)
          /\ last' = Outcome("create_return", r, Len(pickings) + 1, 0, "", "", <<>>)
    /\ UNCHANGED <<wizards, activities, now, todo_matches>>

\* button_validate on a transfer that is not done yet
Validate(pid) ==
    /\ pid \in DOMAIN pickings
    /\ pickings[pid].state # "done"
    /\ \E r \in {ButtonValidate(DB, pid, now)} :
          /\ Commit(r)
          /\ last' = Outcome("validate", r, pid, 0,
                             IF pickings[pid].origin # 0
                             THEN pickings[pickings[pid].origin].loan_state ELSE "",
                             "", <<>>)
    /\ UNCHANGED <<wizards, activities, now, todo_matches>>

\* the ledger rows of a validated loan are created, once
CreateTracking(pid) ==
    /\ pid \in Loans
    /\ pickings[pid].state = "done"
    /\ EntriesOf(DB, pid) = {}
    /\ Len(entries) + Len(pickings[pid].moves) <= MaxEntries
    /\ \E r \in {CreateTrackingDetails(DB, pid, now)} :
          /\ Commit(r)
          /\ last' = Outcome("create_tracking", r, pid, 0, "", "", <<>>)
    /\ UNCHANGED <<wizards, activities, now, todo_matches>>

\* write({'loan_state': t}) on a transfer
WriteLoanState(pid, t) ==
    /\ pid \in DOMAIN pickings
    /\ \E r \in {PickingWrite(DB, pid, [loan_state |-> t], now)} :
          /\ Commit(r)
          /\ last' = Outcome("write_loan_state", r, pid, 0, pickings[pid].loan_state, t,
                             [is_loan |-> pickings[pid].is_loan])
    /\ UNCHANGED <<wizards, activities, now, todo_matches>>

\* action_resolve_loan_trial: TRUE when it raises
ResolveLoanTrialRaises(p) ==
    ~p.is_loan \/ p.loan_state \notin {"in_trial", "active"}

\* a new form for picking pid with the lines default_get built
NewWizard(pid, lines) ==
    [picking |-> pid, lines |-> lines, submitted |-> FALSE, return_picking |-> 0]

\* action_resolve_loan_trial: its action opens the form with default_picking_id only
ResolveLoanTrial(pid, cap) ==
    /\ pid \in DOMAIN pickings
    /\ Len(wizards) < cap
    /\ IF ResolveLoanTrialRaises(pickings[pid])
       THEN /\ last' = Outcome("resolve_loan_trial", Fail(DB, Err("UserError", "not_resolvable")),
                               pid, 0, pickings[pid].loan_state, "", <<>>)
            /\ UNCHANGED wizards
       ELSE /\ wizards' = Append(wizards, NewWizard(pid, DefaultLines(DB, pid, FALSE)))
            /\ last' = Outcome("resolve_loan_trial", Ok(DB), pid, Len(wizards) + 1,
                               pickings[pid].loan_state, "", <<>>)
    /\ UNCHANGED <<pickings, entries, sale_lines, activities, now, todo_matches, locations>>

\* the form is opened with 'picking_id' in the context: default_get builds the lines
OpenWizard(pid, cap) ==
    /\ pid \in DOMAIN pickings
    /\ Len(wizards) < cap
    /\ wizards' = Append(wizards, NewWizard(pid, DefaultLines(DB, pid, TRUE)))
    /\ last' = Outcome("open_wizard", Ok(DB), pid, Len(wizards) + 1,
                       pickings[pid].loan_state, "", <<>>)
    /\ UNCHANGED <<pickings, entries, sale_lines, activities, now, todo_matches, locations>>

\* what the operator may enter on one line of the form
LineChoices ==
    { [resolution_type |-> "keep_loan", unit_price |-> 0, return_condition |-> "good"],
      [resolution_type |-> "buy", unit_price |-> 1, return_condition |-> "good"],
      [resolution_type |-> "return", unit_price |-> 0, return_condition |-> "good"],
      [resolution_type |-> "return", unit_price |-> 0, return_condition |-> "damaged"] }

\* the lines of form wz with the operator's choices entered
FilledLines(wz, choice) ==
    [i \in DOMAIN wz.lines |->
        [wz.lines[i] EXCEPT !.resolution_type = choice[i].resolution_type,
                            !.unit_price = choice[i].unit_price,
                            !.return_condition = choice[i].return_condition]]

\* the form is filled in and submitted (action_process_resolution)
Submit(wid, choice) ==
    /\ wid \in DOMAIN wizards
    /\ ~wizards[wid].submitted
    /\ Len(pickings) < MaxPickings
    /\ Len(sale_lines) + Len(wizards[wid].lines) <= MaxSaleLines
    /\ \E r \in {ProcessResolution(DB, wizards[wid], FilledLines(wizards[wid], choice), now)} :
          /\ Commit(r)
          /\ wizards' = IF r.ok
                        THEN [wizards EXCEPT
                                 ![wid].submitted = TRUE,
                                 ![wid].lines = FilledLines(wizards[wid], choice),
                                 ![wid].return_picking =
                                     IF Len(r.db.pickings) > Len(pickings)
                                     THEN Len(r.db.pickings) ELSE 0]
                        ELSE wizards
          /\ last' = Outcome("submit", r, wizards[wid].picking, wid,
                             pickings[wizards[wid].picking].loan_state, "",
                             [lines |-> FilledLines(wizards[wid], choice)])
    /\ UNCHANGED <<activities, now, todo_matches>>

\* the clock advances
Tick ==
    /\ now < MaxNow
    /\ now' = now + 1
    /\ last' = Outcome("tick", Ok(DB), 0, 0, "", "", <<>>)
    /\ UNCHANGED <<pickings, entries, sale_lines, wizards, activities, todo_matches, locations>>

\* _cron_check_overdue_loans runs; `repeated` tells that the operation before it was
\* a run of the sweep too
CronCheckOverdueLoans ==
    /\ Len(activities) + Cardinality(OverduePickings(DB)) <= MaxActivities
    /\ activities' = SweepOverdue(activities, OverduePickings(DB), now, todo_matches)
    /\ last' = Outcome("cron", Ok(DB), 0, 0, "", "",
                       [created |-> Len(activities') - Len(activities),
                        repeated |-> last.op = "cron"])
    /\ UNCHANGED <<pickings, entries, sale_lines, wizards, now, todo_matches, locations>>

\* ------------------------------------------- direct operations on the ledger

\* the rows a caller may pass to create: every product with and without lot, as one
\* unit or two, and an untracked unit in every status with and without references
LedgerRows ==
    { [picking |-> 1, product |-> p, lot |-> l, quantity |-> q, status |-> "active",
       loan_date |-> 1, resolution_date |-> 0, sale_line |-> 0, sale_price |-> 0,
       return_picking |-> 0, notes |-> ""] : p \in Products, l \in {0, 1}, q \in {1, 2} }
    \cup
    { [picking |-> 1, product |-> "pn", lot |-> 0, quantity |-> 1, status |-> st,
       loan_date |-> 1, resolution_date |-> 0, sale_line |-> sl, sale_price |-> 0,
       return_picking |-> rp, notes |-> ""] :
         st \in {"sold", "returned_damaged", "pending_resolution"},
         sl \in {0, 1}, rp \in {0, 1} }

\* the vals a caller may pass to write
LedgerVals ==
    {[quantity |-> 2], [product |-> "ps"], [sale_line |-> 0], [return_picking |-> 0]}
    \cup {[lot |-> l] : l \in {0, 1}}
    \cup {[status |-> st] : st \in {"sold", "returned_damaged"}}
    \cup {[status |-> "sold", sale_line |-> 1],
          [status |-> "returned_damaged", return_picking |-> 1]}

\* create(row)
LedgerCreate(row) ==
    /\ Len(entries) < MaxLedger
    /\ \E r \in {EntryCreate(DB, row, now)} :
          /\ Commit(r)
          /\ last' = Outcome("ledger_create", r, 0, 0, "", "", [e |-> row])
    /\ UNCHANGED <<wizards, activities, now, todo_matches>>

\* write(vals) on entry eid
LedgerWrite(eid, vals) ==
    /\ eid \in DOMAIN entries
    /\ \E r \in {EntryWrite(DB, eid, vals, now)} :
          /\ Commit(r)
          /\ last' = Outcome("ledger_write", r, 0, 0, "", "",
                             [e |-> Apply(entries[eid], vals), eid |-> eid,
                              before |-> entries[eid]])
    /\ UNCHANGED <<wizards, activities, now, todo_matches>>

\* action_mark_as_sold on entry eid
LedgerMarkSold(eid, sale_line, sale_price) ==
    /\ eid \in DOMAIN entries
    /\ \E r \in {MarkAsSold(DB, eid, sale_line, sale_price, now)} :
          /\ Commit(r)
          /\ last' = Outcome("mark_sold", r, 0, 0, entries[eid].status, "",
                             [e |-> Apply(entries[eid],
                                          [status |-> "sold", sale_line |-> sale_line]),
                              eid |-> eid, before |-> entries[eid],
                              sale_line |-> sale_line, sale_price |-> sale_price])
    /\ UNCHANGED <<wizards, activities, now, todo_matches>>

\* action_mark_as_returned on entry eid
LedgerMarkReturned(eid, return_picking, condition) ==
    /\ eid \in DOMAIN entries
    /\ \E r \in {MarkAsReturned(DB, eid, return_picking, condition, now)} :
          /\ Commit(r)
          /\ last' = Outcome("mark_returned", r, 0, 0, entries[eid].status, "",
                             [e |-> Apply(entries[eid],
                                          [status |-> status_mapping(condition),
                                           return_picking |-> return_picking]),
                              eid |-> eid, before |-> entries[eid],
                              return_picking |-> return_picking, condition |-> condition])
    /\ UNCHANGED <<wizards, activities, now, todo_matches>>

\* ----------------------------------------------------------- specifications

Init ==
    /\ pickings = <<>>
    /\ entries = <<>>
    /\ sale_lines = <<>>
    /\ wizards = <<>>
    /\ activities = <<>>
    /\ now = 1
    /\ todo_matches = FALSE
    /\ locations = NoLocations
    /\ last = Outcome("init", Ok(DB), 0, 0, "", "", <<>>)

\* the life of a loan: created, validated, entered in the ledger, resolved through
\* one form, its returns validated
Next ==
    \/ \E h \in LoanHeaders, mv \in LoanMoves : CreatePicking(h, mv, 0)
    \/ \E o \in Loans : \E m \in DOMAIN pickings[o].moves, q \in 1..MaxEntries :
          CreateReturn(o, m, q)
    \/ \E pid \in DOMAIN pickings : Validate(pid)
    \/ \E pid \in Loans : CreateTracking(pid)
    \/ \E pid \in Loans, t \in {"in_trial", "resolving"} : WriteLoanState(pid, t)
    \/ \E pid \in Loans : ResolveLoanTrial(pid, MaxWizards)
    \/ \E pid \in Loans : OpenWizard(pid, MaxWizards)
    \/ \E wid \in DOMAIN wizards :
          \E choice \in [DOMAIN wizards[wid].lines -> LineChoices] : Submit(wid, choice)

Spec == Init /\ [][Next]_vars

\* loan_state written on transfers of every kind
NextState ==
    \/ \E h \in Headers, mv \in LoanMoves : CreatePicking(h, mv, 0)
    \/ \E pid \in DOMAIN pickings, t \in LoanStates : WriteLoanState(pid, t)

SpecState == Init /\ [][NextState]_vars

\* two forms opened on the same loan
StaleMoves == <<Move("pn", 0, 1), Move("pn", 0, 1)>>

StaleChoices == {c \in LineChoices : c.return_condition = "good"}

NextStale ==
    \/ \E h \in {h \in LoanHeaders : h.is_loan} : CreatePicking(h, StaleMoves, 0)
    \/ \E pid \in DOMAIN pickings : Validate(pid)
    \/ \E pid \in Loans : CreateTracking(pid)
    \/ \E pid \in Loans : WriteLoanState(pid, "resolving")
    \/ \E pid \in Loans : OpenWizard(pid, MaxStaleWizards)
    \/ \E wid \in DOMAIN wizards :
          \E choice \in [DOMAIN wizards[wid].lines -> StaleChoices] : Submit(wid, choice)

SpecStale == Init /\ [][NextStale]_vars

\* the overdue sweep; the name of the to-do activity type is data of the database
InitCron ==
    /\ pickings = <<>>
    /\ entries = <<>>
    /\ sale_lines = <<>>
    /\ wizards = <<>>
    /\ activities = <<>>
    /\ now = 1
    /\ todo_matches \in BOOLEAN
    /\ locations = NoLocations
    /\ last = Outcome("init", Ok(DB), 0, 0, "", "", <<>>)

NextCron ==
    \/ \E h \in LoanHeaders, mv \in LoanMoves, x \in 0..1 : CreatePicking(h, mv, x)
    \/ \E pid \in Loans, t \in {"in_trial", "resolving"} : WriteLoanState(pid, t)
    \/ Tick
    \/ CronCheckOverdueLoans

SpecCron == InitCron /\ [][NextCron]_vars

\* direct operations on the ledger of a validated loan, with one sale order line
\* in the database
InitLedger ==
    /\ pickings = <<BaseValidate(NewPicking(PickingVals(
                        [type_loan_wh |-> FALSE, is_loan |-> TRUE, partner |-> 1],
                        <<Move("pn", 0, 2)>>, 0), 1), 1)>>
    /\ entries = <<>>
    /\ sale_lines = <<[order |-> 1, partner |-> 1, product |-> "pn", qty |-> 1,
                       price |-> 1, lot |-> 0]>>
    /\ wizards = <<>>
    /\ activities = <<>>
    /\ now = 1
    /\ todo_matches = FALSE
    /\ locations = NoLocations
    /\ last = Outcome("init", Ok(DB), 0, 0, "", "", <<>>)

NextLedger ==
    \/ \E row \in LedgerRows : LedgerCreate(row)
    \/ \E eid \in DOMAIN entries, vals \in LedgerVals : LedgerWrite(eid, vals)
    \/ \E eid \in DOMAIN entries, sl \in {0, 1}, price \in {0, 2} :
          LedgerMarkSold(eid, sl, price)
    \/ \E eid \in DOMAIN entries, rp \in {0, 1}, c \in {"good", "damaged", "defective"} :
          LedgerMarkReturned(eid, rp, c)

SpecLedger == InitLedger /\ [][NextLedger]_vars

\* the dates of the ledger: entries of a validated loan are created active, marked
\* pending_resolution the way _process_returns does, sold or returned, while the
\* clock advances
ActiveRows == {row \in LedgerRows : row.status = "active"}

NextDates ==
    \/ \E row \in ActiveRows : LedgerCreate(row)
    \/ \E eid \in DOMAIN entries :
          LedgerWrite(eid, [status |-> "pending_resolution", notes |-> "return:good"])
    \/ \E eid \in DOMAIN entries : LedgerMarkSold(eid, 1, 0)
    \/ \E eid \in DOMAIN entries, c \in {"good", "damaged", "defective"} :
          LedgerMarkReturned(eid, 1, c)
    \/ Tick

SpecDates == InitLedger /\ [][NextDates]_vars

\* the stock check and the bypass: transfers requesting up to more than is
\* available, created and written with and without the bypass flag and its reason
StockMoves ==
    { <<Move("pn", 0, 1)>>, <<Move("pn", 0, 4)>>, <<Move("pn", 0, 2), Move("pn", 0, 4)>>,
      <<Move("pl", 1, 0), Move("pn", 0, 2)>>, <<Move("pl", 1, 1)>> }

StockHeaders == {h \in Headers : h.partner # 0 \/ ~h.type_loan_wh}

\* create(vals) with the bypass fields in vals
CreateWithBypass(h, moves, bypass, reason) ==
    /\ Len(pickings) < MaxPickings
    /\ Cardinality(Originals) < MaxLoans
    /\ \E r \in {PickingCreate(DB, [PickingVals(h, moves, 0) EXCEPT
                                        !.bypass = bypass, !.bypass_reason = reason], now)} :
          /\ Commit(r)
          /\ last' = Outcome("create_bypass", r, Len(pickings) + 1, 0, "", "",
                             [loan |-> h.is_loan \/ h.type_loan_wh, moves |-> moves,
                              bypass |-> bypass, reason |-> reason])
    /\ UNCHANGED <<wizards, activities, now, todo_matches>>

\* write({'bypass_stock_validation': bypass, 'bypass_reason': reason})
WriteBypass(pid, bypass, reason) ==
    /\ pid \in DOMAIN pickings
    /\ \E r \in {PickingWrite(DB, pid, [bypass |-> bypass, bypass_reason |-> reason], now)} :
          /\ Commit(r)
          /\ last' = Outcome("write_bypass", r, pid, 0, "", "",
                             [loan |-> pickings[pid].is_loan, moves |-> pickings[pid].moves,
                              bypass |-> bypass, reason |-> reason])
    /\ UNCHANGED <<wizards, activities, now, todo_matches>>

\* write({'bypass_reason': reason})
WriteBypassReason(pid, reason) ==
    /\ pid \in DOMAIN pickings
    /\ \E r \in {PickingWrite(DB, pid, [bypass_reason |-> reason], now)} :
          /\ Commit(r)
          /\ last' = Outcome("write_reason", r, pid, 0, "", "",
                             [loan |-> pickings[pid].is_loan, reason |-> reason])
    /\ UNCHANGED <<wizards, activities, now, todo_matches>>

NextStock ==
    \/ \E h \in StockHeaders, mv \in StockMoves, b \in BOOLEAN, r \in {"", "urgent"} :
          CreateWithBypass(h, mv, b, r)
    \/ \E pid \in DOMAIN pickings, b \in BOOLEAN, r \in {"", "urgent"} :
          WriteBypass(pid, b, r)
    \/ \E pid \in DOMAIN pickings, r \in {"", "urgent"} : WriteBypassReason(pid, r)

SpecStock == Init /\ [][NextStock]_vars

\* the form as the operator can fill it in: decision, price and quantity
\* of every line
FormMoves == <<Move("ps", 1, 1), Move("pn", 0, 2)>>

FormEntries ==
    { [resolution_type |-> rt, unit_price |-> 0, return_condition |-> "good", qty_to_resolve |-> q] :
        rt \in {"keep_loan", "return"}, q \in 0..3 }
    \cup { [resolution_type |-> "buy", unit_price |-> up, return_condition |-> "good",
            qty_to_resolve |-> q] : up \in {0, 1}, q \in {1, 2} }
    \cup { [resolution_type |-> "", unit_price |-> 0, return_condition |-> "good",
            qty_to_resolve |-> 1] }

\* the lines of form wz with the operator's entries
EnteredLines(wz, entry) ==
    [i \in DOMAIN wz.lines |->
        [wz.lines[i] EXCEPT !.resolution_type = entry[i].resolution_type,
                            !.unit_price = entry[i].unit_price,
                            !.return_condition = entry[i].return_condition,
                            !.qty_to_resolve = entry[i].qty_to_resolve]]

\* the form is saved with the operator's entries and submitted
SubmitForm(wid, entry) ==
    /\ wid \in DOMAIN wizards
    /\ ~wizards[wid].submitted
    /\ Len(pickings) < MaxPickings
    /\ Len(sale_lines) + Len(wizards[wid].lines) <= MaxSaleLines
    /\ \E r \in {ProcessResolution(DB, wizards[wid], EnteredLines(wizards[wid], entry), now)} :
          /\ Commit(r)
          /\ wizards' = IF r.ok
                        THEN [wizards EXCEPT
                                 ![wid].submitted = TRUE,
                                 ![wid].lines = EnteredLines(wizards[wid], entry),
                                 ![wid].return_picking =
                                     IF Len(r.db.pickings) > Len(pickings)
                                     THEN Len(r.db.pickings) ELSE 0]
                        ELSE wizards
          /\ last' = Outcome("submit_form", r, wizards[wid].picking, wid,
                             pickings[wizards[wid].picking].loan_state, "",
                             [lines |-> EnteredLines(wizards[wid], entry),
                              before |-> DB, reached |-> r.db])
    /\ UNCHANGED <<activities, now, todo_matches>>

NextForm ==
    \/ \E h \in {h \in LoanHeaders : h.is_loan} : CreatePicking(h, FormMoves, 0)
    \/ \E pid \in DOMAIN pickings : Validate(pid)
    \/ \E pid \in Loans : CreateTracking(pid)
    \/ \E pid \in Loans : OpenWizard(pid, MaxWizards)
    \/ \E wid \in DOMAIN wizards :
          \E entry \in [DOMAIN wizards[wid].lines -> FormEntries] : SubmitForm(wid, entry)

SpecForm == Init /\ [][NextForm]_vars

\* --------------------------------------------------- partner statistics

\* self.search([]).ids of res.partner
PartnerIds == {1, 2}

ActiveLoanStates == {"active", "in_trial", "partially_resolved"}

\* _compute_loan_stats and _compute_has_active_loans of one partner
\* (has_active_loans as Python's bool: 1 for True, 0 for False)
ComputeLoanStats(db, partner) ==
    LET loans == {i \in DOMAIN db.pickings :
                     db.pickings[i].partner = partner /\ db.pickings[i].is_loan}
        active == {i \in loans : db.pickings[i].loan_state \in ActiveLoanStates}
    IN [loan_count |-> Cardinality(loans),
        active_loans_count |-> Cardinality(active),
        overdue_loans_count |-> Cardinality({i \in loans : db.pickings[i].is_overdue}),
        has_active_loans |-> IF Cardinality(active) > 0 THEN 1 ELSE 0]

\* _apply_search_operator
ApplySearchOperator(field_value, operator, search_value) ==
    CASE operator = "=" -> field_value = search_value
      [] operator = "!=" -> field_value # search_value
      [] operator = ">" -> field_value > search_value
      [] operator = ">=" -> field_value >= search_value
      [] operator = "<" -> field_value < search_value
      [] operator = "<=" -> field_value <= search_value
      [] OTHER -> FALSE

\* stock.picking.search(domain).mapped('loaned_to_partner_id.id') for the domain
\* of each search method
PartnersWith(db, stat) ==
    { db.pickings[i].partner : i \in
        { i \in DOMAIN db.pickings :
            /\ db.pickings[i].is_loan /\ db.pickings[i].partner # 0
            /\ CASE stat = "loan_count" -> TRUE
                 [] stat = "overdue_loans_count" -> db.pickings[i].is_overdue
                 [] OTHER -> db.pickings[i].loan_state \in ActiveLoanStates } }

\* _search_loan_count, _search_active_loans_count, _search_overdue_loans_count
SearchCount(db, stat, operator, value) ==
    IF operator = ">" /\ value = 0 THEN PartnersWith(db, stat)
    ELSE IF operator = "=" /\ value = 0 THEN PartnerIds \ PartnersWith(db, stat)
    ELSE {p \in PartnersWith(db, stat) :
             ApplySearchOperator(ComputeLoanStats(db, p)[stat], operator, value)}

\* _search_has_active_loans (value 1 for True, 0 for False)
SearchHasActiveLoans(db, operator, value) ==
    IF operator = "=" /\ value = 1 THEN PartnersWith(db, "has_active_loans")
    ELSE IF operator = "=" /\ value = 0 THEN PartnerIds \ PartnersWith(db, "has_active_loans")
    ELSE IF operator = "!=" /\ value = 1 THEN PartnerIds \ PartnersWith(db, "has_active_loans")
    ELSE IF operator = "!=" /\ value = 0 THEN PartnersWith(db, "has_active_loans")
    ELSE IF value # 0 THEN PartnersWith(db, "has_active_loans")
    ELSE {}

Statistics == {"loan_count", "active_loans_count", "overdue_loans_count", "has_active_loans"}

Operators == {"=", "!=", ">", ">=", "<", "<="}

\* a search on res.partner with the domain [(stat, operator, value)]
SearchPartners(stat, operator, value) ==
    /\ last' = Outcome("search", Ok(DB), 0, 0, "", "",
                       [stat |-> stat, operator |-> operator, value |-> value,
                        found |-> IF stat = "has_active_loans"
                                  THEN SearchHasActiveLoans(DB, operator, value)
                                  ELSE SearchCount(DB, stat, operator, value)])
    /\ UNCHANGED <<pickings, entries, sale_lines, wizards, activities, now, todo_matches, locations>>

\* a loan to `partner` is created, due back on day `expected`
CreateLoanFor(partner, expected) ==
    /\ Len(pickings) <= MaxLoans
    /\ \E r \in {PickingCreate(DB, PickingVals(
                        [type_loan_wh |-> FALSE, is_loan |-> TRUE, partner |-> partner],
                        <<Move("pn", 0, 1)>>, expected), now)} :
          /\ Commit(r)
          /\ last' = Outcome("create", r, Len(pickings) + 1, 0, "", "", <<>>)
    /\ UNCHANGED <<wizards, activities, now, todo_matches>>

NextPartner ==
    \/ \E partner \in PartnerIds, x \in 0..1 : CreateLoanFor(partner, x)
    \/ \E pid \in Loans : WriteLoanState(pid, "resolving")
    \/ Tick
    \/ \E stat \in Statistics, operator \in Operators, value \in 0..1 :
          SearchPartners(stat, operator, value)

SpecPartner == Init /\ [][NextPartner]_vars

\* ----------------------------------------------------------- analytics

\* Python's a / b: the quotient as a fraction, ZeroDivisionError when b is 0
Divide(a, b) ==
    IF b = 0 THEN [ok |-> FALSE, err |-> Err("ZeroDivisionError", "division by zero"),
                   value |-> [num |-> 0, den |-> 1]]
    ELSE [ok |-> TRUE, err |-> NoErr, value |-> [num |-> a, den |-> b]]

\* the integer 0 of the `else 0` branches
Zero == [ok |-> TRUE, err |-> NoErr, value |-> [num |-> 0, den |-> 1]]

\* self.search(domain): 0 and {} are the filters left out (None)
AnalyticsRecords(db, date_from, date_to, partner_ids) ==
    {i \in DOMAIN db.entries :
        /\ date_from # 0 => db.entries[i].loan_date >= date_from
        /\ date_to # 0 => db.entries[i].loan_date <= date_to
        /\ partner_ids # {} => db.pickings[db.entries[i].picking].partner \in partner_ids}

\* _compute_days_in_loan, as stored when it was last computed, on day `seen`
DaysInLoan(e, seen) ==
    IF e.status = "active" THEN seen - e.loan_date
    ELSE (IF e.resolution_date # 0 THEN e.resolution_date ELSE e.loan_date) - e.loan_date

\* _compute_overdue_status, as stored when it was last computed, on day `seen`
EntryOverdue(db, e, seen) ==
    /\ e.status = "active"
    /\ db.pickings[e.picking].expected # 0
    /\ db.pickings[e.picking].expected < seen

RECURSIVE SumDays(_, _, _)
SumDays(db, records, seen) ==
    IF records = {} THEN 0
    ELSE LET i == CHOOSE i \in records : TRUE
         IN DaysInLoan(db.entries[i], seen[i]) + SumDays(db, records \ {i}, seen)

\* the analytics dictionary from its two quotients
AnalyticsOf(db, records, seen, avg, rate) ==
    [ok |-> avg.ok /\ rate.ok,
     err |-> IF ~avg.ok THEN avg.err ELSE rate.err,
     total_loans |-> Cardinality(records),
     active_loans |-> Cardinality({i \in records : db.entries[i].status = "active"}),
     overdue_loans |-> Cardinality({i \in records : EntryOverdue(db, db.entries[i], seen[i])}),
     sold_conversions |-> Cardinality({i \in records : db.entries[i].status = "sold"}),
     returns_good |-> Cardinality({i \in records : db.entries[i].status = "returned_good"}),
     returns_damaged |-> Cardinality({i \in records : db.entries[i].status \in
                                         {"returned_damaged", "returned_defective"}}),
     avg_days_in_loan |-> avg.value,
     conversion_rate |-> [num |-> rate.value.num * 100, den |-> rate.value.den]]

\* get_loan_analytics without its `if records else 0`
GetLoanAnalyticsUnguarded(db, date_from, date_to, partner_ids, seen) ==
    AnalyticsOf(db, AnalyticsRecords(db, date_from, date_to, partner_ids), seen,
        Divide(SumDays(db, AnalyticsRecords(db, date_from, date_to, partner_ids), seen),
               Cardinality(AnalyticsRecords(db, date_from, date_to, partner_ids))),
        Divide(Cardinality({i \in AnalyticsRecords(db, date_from, date_to, partner_ids) :
                               db.entries[i].status = "sold"}),
               Cardinality(AnalyticsRecords(db, date_from, date_to, partner_ids))))

\* get_loan_analytics; seen[i] is the day the stored computed fields of entry i
\* were last computed
GetLoanAnalytics(db, date_from, date_to, partner_ids, seen) ==
    AnalyticsOf(db, AnalyticsRecords(db, date_from, date_to, partner_ids), seen,
        IF AnalyticsRecords(db, date_from, date_to, partner_ids) # {}
        THEN Divide(SumDays(db, AnalyticsRecords(db, date_from, date_to, partner_ids), seen),
                    Cardinality(AnalyticsRecords(db, date_from, date_to, partner_ids)))
        ELSE Zero,
        IF AnalyticsRecords(db, date_from, date_to, partner_ids) # {}
        THEN Divide(Cardinality({i \in AnalyticsRecords(db, date_from, date_to, partner_ids) :
                                    db.entries[i].status = "sold"}),
                    Cardinality(AnalyticsRecords(db, date_from, date_to, partner_ids)))
        ELSE Zero)

\* an active row is entered in the ledger
RecordLoan(row) ==
    /\ Len(entries) <= MaxLedger
    /\ \E r \in {EntryCreate(DB, row, now)} :
          /\ Commit(r)
          /\ last' = Outcome("ledger_create", r, 0, 0, "", "", [e |-> row])
    /\ UNCHANGED <<wizards, activities, now, todo_matches>>

\* get_loan_analytics(date_from, date_to, partner_ids) is called
Analytics(date_from, date_to, partner_ids, seen) ==
    /\ \E a \in {GetLoanAnalytics(DB, date_from, date_to, partner_ids, seen)} :
          last' = Outcome("analytics", a, 0, 0, "", "",
                          [date_from |-> date_from, date_to |-> date_to,
                           partner_ids |-> partner_ids, result |-> a])
    /\ UNCHANGED <<pickings, entries, sale_lines, wizards, activities, now, todo_matches, locations>>

NextAnalytics ==
    \/ \E row \in {row \in ActiveRows : row.product = "pn" /\ row.lot = 0 /\ row.quantity = 1} : RecordLoan(row)
    \/ \E eid \in DOMAIN entries : LedgerMarkSold(eid, 1, 0)
    \/ \E eid \in DOMAIN entries : LedgerMarkReturned(eid, 1, "good")
    \/ Tick
    \/ \E date_from \in {0, 2}, date_to \in {0, 1}, partner_ids \in {{}, {1}, {2}} :
          \E seen \in [DOMAIN entries -> {1, now}] :
              Analytics(date_from, date_to, partner_ids, seen)

SpecAnalytics == InitLedger /\ [][NextAnalytics]_vars

\* ------------------------------------------------------- retention sweep

\* timedelta(days=730) of _cron_cleanup_old_resolved_records
RetentionDays == 730

\* the search of _cron_cleanup_old_resolved_records run on day `today`
OldRecords(db, today) ==
    {i \in DOMAIN db.entries :
        /\ db.entries[i].status \in {"sold", "returned_good", "returned_damaged",
                                      "returned_defective"}
        /\ db.entries[i].resolution_date # 0
        /\ db.entries[i].resolution_date < today - RetentionDays}

\* _cron_cleanup_old_resolved_records with old_records.unlink() in effect
CleanupUnlinking(db, today) ==
    [db |-> [db EXCEPT !.entries = SelectSeq(db.entries,
                 LAMBDA e : ~(/\ e.status \in {"sold", "returned_good", "returned_damaged",
                                                "returned_defective"}
                              /\ e.resolution_date # 0
                              /\ e.resolution_date < today - RetentionDays))],
     count |-> Cardinality(OldRecords(db, today))]

\* _cron_cleanup_old_resolved_records: the database it leaves and the count it returns
CronCleanupOldResolvedRecords(db, today) ==
    [db |-> db, count |-> Cardinality(OldRecords(db, today))]

\* the retention sweep runs
CronCleanup ==
    /\ \E c \in {CronCleanupOldResolvedRecords(DB, now)} :
          /\ Commit(Ok(c.db))
          /\ last' = Outcome("cleanup", Ok(c.db), 0, 0, "", "",
                             [count |-> c.count, repeated |-> last.op = "cleanup"])
    /\ UNCHANGED <<wizards, activities, now, todo_matches, locations>>

\* a ledger with a row sold 731 days before day 1, a row returned 730 days before
\* day 1 and an active row, on an overdue loan
InitSweeps ==
    /\ pickings = <<BaseValidate(NewPicking(PickingVals(
                        [type_loan_wh |-> FALSE, is_loan |-> TRUE, partner |-> 1],
                        <<Move("pn", 0, 3)>>, 1), 2), 1)>>
    /\ entries = << [picking |-> 1, product |-> "pn", lot |-> 0, quantity |-> 1,
                     status |-> "sold", loan_date |-> 0 - RetentionDays - 1,
                     resolution_date |-> 0 - RetentionDays, sale_line |-> 1,
                     sale_price |-> 1, return_picking |-> 0, notes |-> ""],
                    [picking |-> 1, product |-> "pn", lot |-> 0, quantity |-> 1,
                     status |-> "returned_good", loan_date |-> 0 - RetentionDays - 1,
                     resolution_date |-> 1 - RetentionDays, sale_line |-> 0,
                     sale_price |-> 0, return_picking |-> 1, notes |-> ""],
                    [picking |-> 1, product |-> "pn", lot |-> 0, quantity |-> 1,
                     status |-> "active", loan_date |-> 1,
                     resolution_date |-> 0, sale_line |-> 0,
                     sale_price |-> 0, return_picking |-> 0, notes |-> ""] >>
    /\ sale_lines = <<[order |-> 1, partner |-> 1, product |-> "pn", qty |-> 1,
                       price |-> 1, lot |-> 0]>>
    /\ wizards = <<>>
    /\ activities = <<>>
    /\ now = 1
    /\ todo_matches \in BOOLEAN
    /\ locations = NoLocations
    /\ last = Outcome("init", Ok(DB), 0, 0, "", "", <<>>)

NextSweeps ==
    \/ CronCleanup
    \/ CronCheckOverdueLoans
    \/ Tick
    \/ \E eid \in DOMAIN entries : LedgerMarkSold(eid, 1, 0)
    \/ \E eid \in DOMAIN entries : LedgerMarkReturned(eid, 1, "good")
    \/ \E pid \in Loans, t \in {"in_trial", "resolving"} : WriteLoanState(pid, t)

SpecSweeps == InitSweeps /\ [][NextSweeps]_vars

\* ------------------------------------------- returns linked to their loan

\* the moves of the loans that are returned: two batches of the untracked product,
\* or two serials and a batch
ReturnedLoanMoves ==
    { <<Move("pn", 0, 2), Move("pn", 0, 1)>>,
      <<Move("ps", 1, 1), Move("ps", 2, 1), Move("pn", 0, 1)>> }

\* a loan is created (is_loan in vals), up to MaxLoans + 1 of them
CreateLoan(moves) ==
    /\ Len(pickings) < MaxPickings
    /\ Cardinality(Originals) <= MaxLoans
    /\ \E r \in {PickingCreate(DB, PickingVals(
                        [type_loan_wh |-> FALSE, is_loan |-> TRUE, partner |-> 1],
                        moves, 0), now)} :
          /\ Commit(r)
          /\ last' = Outcome("create", r, Len(pickings) + 1, 0, "", "", <<>>)
    /\ UNCHANGED <<wizards, activities, now, todo_matches>>

\* the ledger rows of a validated loan are created, once
CreateLoanTracking(pid) ==
    /\ pid \in Loans
    /\ pickings[pid].state = "done"
    /\ EntriesOf(DB, pid) = {}
    /\ \E r \in {CreateTrackingDetails(DB, pid, now)} :
          /\ Commit(r)
          /\ last' = Outcome("create_tracking", r, pid, 0, "", "", <<>>)
    /\ UNCHANGED <<wizards, activities, now, todo_matches>>

\* a return transfer of loan `orig` with one move is created by a collaborator and
\* linked to the loan (_setup_loan_return_hooks)
CreateLinkedReturn(orig, prod, lot, qty) ==
    /\ Len(pickings) < MaxPickings
    /\ orig \in Loans
    /\ pickings[orig].state = "done"
    /\ EntriesOf(DB, orig) # {}
    /\ \E r \in {Bind(PickingCreate(DB,
                         PickingVals([type_loan_wh |-> FALSE, is_loan |-> FALSE, partner |-> 0],
                                     <<Move(prod, lot, qty)>>, 0), now),
                      LAMBDA d : PickingWrite(d, Len(d.pickings), [origin |-> orig], now))} :
          /\ Commit(r)
          /\ last' = Outcome("create_return", r, Len(pickings) + 1, 0, "", "", <<>>)
    /\ UNCHANGED <<wizards, activities, now, todo_matches>>

\* button_validate on a return transfer linked to its loan
ValidateReturn(rid) ==
    /\ rid \in DOMAIN pickings
    /\ pickings[rid].origin # 0
    /\ pickings[rid].state # "done"
    /\ \E r \in {ButtonValidate(DB, rid, now)} :
          /\ Commit(r)
          /\ last' = Outcome("validate_return", r, rid, 0,
                             pickings[pickings[rid].origin].loan_state, "",
                             [orig |-> pickings[rid].origin,
                              move |-> BaseValidate(pickings[rid], now).moves[1],
                              before |-> entries])
    /\ UNCHANGED <<wizards, activities, now, todo_matches>>

NextReturn ==
    \/ \E mv \in ReturnedLoanMoves : CreateLoan(mv)
    \/ \E pid \in Originals : Validate(pid)
    \/ \E pid \in Loans : CreateLoanTracking(pid)
    \/ \E pid \in Loans, t \in {"in_trial", "resolving"} : WriteLoanState(pid, t)
    \/ \E orig \in Loans, lot \in 1..2 : CreateLinkedReturn(orig, "ps", lot, 1)
    \/ \E orig \in Loans, qty \in 1..3 : CreateLinkedReturn(orig, "pn", 0, qty)
    \/ \E rid \in DOMAIN pickings : ValidateReturn(rid)

SpecReturn == Init /\ [][NextReturn]_vars

\* ------------------------------------------------- purchases of loaned units

\* a validated loan under resolution whose ledger is still empty
InitSales ==
    /\ pickings = <<[BaseValidate(NewPicking(PickingVals(
                         [type_loan_wh |-> FALSE, is_loan |-> TRUE, partner |-> 1],
                         <<Move("pn", 0, 2)>>, 0), 1), 1)
                     EXCEPT !.loan_state = "resolving"]>>
    /\ entries = <<>>
    /\ sale_lines = <<>>
    /\ wizards = <<>>
    /\ activities = <<>>
    /\ now = 1
    /\ todo_matches = FALSE
    /\ locations = NoLocations
    /\ last = Outcome("init", Ok(DB), 0, 0, "", "", <<>>)

\* the rows entered in the ledger: units of the lot-tracked product of two lots, a
\* serial and an untracked unit
SalesRows ==
    {row \in ActiveRows :
        /\ row.quantity = 1
        /\ \/ row.product = "pl" /\ row.lot = 1
           \/ row.product = "ps" /\ row.lot = 1
           \/ row.product = "pn" /\ row.lot = 0}
    \cup {[row EXCEPT !.lot = 2] : row \in {r \in ActiveRows :
                                     r.product = "pl" /\ r.lot = 1 /\ r.quantity = 1}}

\* what the operator enters on a line when units are bought
SalesChoices ==
    { [resolution_type |-> "keep_loan", unit_price |-> 0, return_condition |-> "good"],
      [resolution_type |-> "buy", unit_price |-> 1, return_condition |-> "good"],
      [resolution_type |-> "buy", unit_price |-> 2, return_condition |-> "good"] }

NextSales ==
    \/ \E row \in SalesRows : RecordLoan(row)
    \/ \E pid \in Loans : OpenWizard(pid, MaxWizards)
    \/ \E wid \in DOMAIN wizards :
          \E choice \in [DOMAIN wizards[wid].lines -> SalesChoices] : Submit(wid, choice)

SpecSales == InitSales /\ [][NextSales]_vars

\* --------------------------------------- submissions that succeed or fail

\* a validated loan, still active or under resolution, whose ledger is empty
InitResolve ==
    /\ pickings \in {<<[BaseValidate(NewPicking(PickingVals(
                           [type_loan_wh |-> FALSE, is_loan |-> TRUE, partner |-> 1],
                           <<Move("pn", 0, 2)>>, 0), 1), 1)
                        EXCEPT !.loan_state = ls]>> : ls \in {"active", "resolving"}}
    /\ entries = <<>>
    /\ sale_lines = <<>>
    /\ wizards = <<>>
    /\ activities = <<>>
    /\ now = 1
    /\ todo_matches = FALSE
    /\ locations = NoLocations
    /\ last = Outcome("init", Ok(DB), 0, 0, "", "", <<>>)

\* one unit of each line bought, returned or kept
ResolveEntries ==
    { [resolution_type |-> c.resolution_type, unit_price |-> c.unit_price,
       return_condition |-> c.return_condition, qty_to_resolve |-> 1] : c \in StaleChoices }

NextResolve ==
    \/ \E row \in SalesRows : RecordLoan(row)
    \/ \E pid \in Loans : OpenWizard(pid, MaxWizards)
    \/ \E wid \in DOMAIN wizards :
          \E entry \in [DOMAIN wizards[wid].lines -> ResolveEntries] : SubmitForm(wid, entry)

SpecResolve == InitResolve /\ [][NextResolve]_vars

\* ------------------------------------- recomputation of derived quantities

\* the try block of _trigger_quantity_recalculation: the recomputation raises
\* (`fails`) or goes through; it writes no stored field of these tables
RecalculationBody(db, pid, fails) ==
    IF fails THEN Fail(db, Err("Exception", "recalculation")) ELSE Ok(db)

\* _trigger_quantity_recalculation without its try/except
TriggerRecalculationRaising(db, pid, fails) == RecalculationBody(db, pid, fails)

\* _trigger_quantity_recalculation: `except Exception: pass`
TriggerRecalculation(db, pid, fails) ==
    IF RecalculationBody(db, pid, fails).ok
    THEN Ok(RecalculationBody(db, pid, fails).db)
    ELSE Ok(db)

\* button_validate with the recomputation's outcome as an input
ButtonValidateRecalc(db, pid, t, fails) ==
    Bind(AfterValidate([db EXCEPT !.pickings[pid] = BaseValidate(db.pickings[pid], t)], pid, t),
         LAMBDA d : IF d.pickings[pid].state = "done"
                       /\ (d.pickings[pid].origin # 0 \/ d.pickings[pid].is_loan)
                    THEN TriggerRecalculation(d, pid, fails)
                    ELSE Ok(d))

\* write(vals) with the recomputation's outcome as an input
PickingWriteRecalc(db, pid, vals, t, fails) ==
    Bind(PickingWrite(db, pid, vals, t),
         LAMBDA d : IF /\ DOMAIN vals \cap {"state", "loan_state", "is_loan"} # {}
                       /\ (d.pickings[pid].is_loan \/ d.pickings[pid].origin # 0)
                    THEN TriggerRecalculation(d, pid, fails)
                    ELSE Ok(d))

\* button_validate while the recomputation fails or not
ValidateRecalc(pid, fails) ==
    /\ pid \in DOMAIN pickings
    /\ pickings[pid].state # "done"
    /\ \E r \in {ButtonValidateRecalc(DB, pid, now, fails)} :
          /\ Commit(r)
          /\ last' = Outcome("validate_recalc", r, pid, 0, "", "",
                             [fails |-> fails, result |-> r,
                              undisturbed |-> ButtonValidateRecalc(DB, pid, now, FALSE)])
    /\ UNCHANGED <<wizards, activities, now, todo_matches>>

\* write(vals) while the recomputation fails or not
WriteRecalc(pid, vals, fails) ==
    /\ pid \in DOMAIN pickings
    /\ \E r \in {PickingWriteRecalc(DB, pid, vals, now, fails)} :
          /\ Commit(r)
          /\ last' = Outcome("write_recalc", r, pid, 0, "", "",
                             [fails |-> fails, result |-> r,
                              undisturbed |-> PickingWriteRecalc(DB, pid, vals, now, FALSE)])
    /\ UNCHANGED <<wizards, activities, now, todo_matches>>

\* the vals of the writes that trigger the recomputation
RecalcVals ==
    {[loan_state |-> t] : t \in {"in_trial", "resolving", "completed"}}
    \cup {[is_loan |-> b] : b \in BOOLEAN} \cup {[state |-> "assigned"]}

NextRecalc ==
    \/ \E h \in Headers, mv \in LoanMoves : CreatePicking(h, mv, 0)
    \/ \E pid \in DOMAIN pickings, fails \in BOOLEAN : ValidateRecalc(pid, fails)
    \/ \E pid \in DOMAIN pickings, vals \in RecalcVals, fails \in BOOLEAN :
          WriteRecalc(pid, vals, fails)

SpecRecalc == Init /\ [][NextRecalc]_vars

\* ---------------------------------------------------------------- loan locations

\* a loan of partner 1 created at day `d`, set up at the shared location
EarlierLoan(d) ==
    [NewPicking(PickingVals([type_loan_wh |-> TRUE, is_loan |-> TRUE, partner |-> 1],
                            <<Move("pn", 0, 1)>>, d + 1), d)
        EXCEPT !.dest = [kind |-> "shared", partner |-> 0],
               !.moves_dest = [kind |-> "shared", partner |-> 0]]

\* partner 1 has up to two loans created 365 or 366 days before day 1
InitLocation ==
    /\ pickings \in {<<>>} \cup {<<EarlierLoan(d)>> : d \in {1 - 366, 1 - 365}}
                       \cup {<<EarlierLoan(d), EarlierLoan(1 - 365)>> :
                                 d \in {1 - 366, 1 - 365}}
    /\ entries = <<>>
    /\ sale_lines = <<>>
    /\ wizards = <<>>
    /\ activities = <<>>
    /\ now = 1
    /\ todo_matches = FALSE
    /\ locations = IF pickings = <<>> THEN NoLocations
                   ELSE GetSharedTemporaryLocation(NoLocations)
    /\ last = Outcome("init", Ok(DB), 0, 0, "", "", <<>>)

LocationHeaders ==
    {[type_loan_wh |-> w, is_loan |-> ~w, partner |-> p] :
        w \in BOOLEAN, p \in PartnerIds}

\* create a transfer for a partner, from the loans menu or not
CreateLocated(h, from_loans_menu) ==
    /\ Len(pickings) <= MaxPickings
    /\ \E r \in {PickingCreateCtx(DB, PickingVals(h, <<Move("pn", 0, 1)>>, now + 1),
                                  now, from_loans_menu)} :
          /\ Commit(r)
          /\ last' = Outcome("create_located", r, Len(pickings) + 1, 0, "", "",
                             [type_loan_wh |-> h.type_loan_wh,
                              from_loans_menu |-> from_loans_menu])
    /\ UNCHANGED <<wizards, activities, now, todo_matches>>

NextLocation ==
    \/ \E h \in LocationHeaders, m \in BOOLEAN : CreateLocated(h, m)
    \/ Tick

SpecLocation == InitLocation /\ [][NextLocation]_vars

\* ------------------------------------------------- ledger and valuation creation

\* the rows create_for_loan hands to create, which it returns: one per serial line
\* with a lot, one per line of any other product
RECURSIVE ValuationRows(_, _, _, _)
ValuationRows(p, pid, moves, t) ==
    IF moves = <<>> THEN <<>>
    ELSE LET m == Head(moves)
             loan_date == IF p.date_done # 0 THEN p.date_done ELSE t
             row(lot) == [picking |-> pid, product |-> m.product, lot |-> lot,
                          loan_date |-> loan_date]
             here == IF Tracking(m.product) = "serial"
                     THEN (IF m.lot # 0 THEN <<row(m.lot)>> ELSE <<>>)
                     ELSE <<row(0)>>
         IN here \o ValuationRows(p, pid, Tail(moves), t)

\* LoanValuationTracker.create_for_loan(picking)
CreateForLoan(db, pid, t) == ValuationRows(db.pickings[pid], pid, db.pickings[pid].moves, t)

TrackedMoves ==
    { <<Move("pn", 0, 2), Move("ps", 1, 1)>>,
      <<Move("ps", 1, 1), Move("ps", 2, 1)>>,
      <<Move("pn", 0, 1), Move("pl", 1, 2)>> }

\* a loan is created with the stock check bypassed
CreateTrackedLoan(moves) ==
    /\ Cardinality(Originals) < MaxLoans
    /\ \E r \in {PickingCreate(DB, [PickingVals(
                        [type_loan_wh |-> FALSE, is_loan |-> TRUE, partner |-> 1],
                        moves, 0) EXCEPT !.bypass = TRUE, !.bypass_reason = "demo"], now)} :
          /\ Commit(r)
          /\ last' = Outcome("create", r, Len(pickings) + 1, 0, "", "", <<>>)
    /\ UNCHANGED <<wizards, activities, now, todo_matches>>

\* the confirmed quantity of movement line m of a transfer not yet done is entered
SetDone(pid, m, q) ==
    /\ pid \in DOMAIN pickings
    /\ pickings[pid].state # "done"
    /\ m \in DOMAIN pickings[pid].moves
    /\ q \in 0..pickings[pid].moves[m].qty
    /\ pickings' = [pickings EXCEPT ![pid].moves[m].qty_done = q]
    /\ last' = Outcome("set_done", Ok(DB), pid, 0, "", "", <<>>)
    /\ UNCHANGED <<entries, sale_lines, wizards, activities, now, todo_matches, locations>>

\* _create_tracking_details and create_for_loan on the same done loan
CreateLedgerAndValuation(pid) ==
    /\ pid \in Loans
    /\ pickings[pid].state = "done"
    /\ EntriesOf(DB, pid) = {}
    /\ \E r \in {CreateTrackingDetails(DB, pid, now)} :
          /\ Commit(r)
          /\ last' = Outcome("create_rows", r, pid, 0, "", "",
                             [reached |-> r.db.entries,
                              valuation |-> CreateForLoan(DB, pid, now)])
    /\ UNCHANGED <<wizards, activities, now, todo_matches>>

NextTracking ==
    \/ \E mv \in TrackedMoves : CreateTrackedLoan(mv)
    \/ \E pid \in Originals, m \in 1..2, q \in 0..2 : SetDone(pid, m, q)
    \/ \E pid \in Originals : Validate(pid)
    \/ \E pid \in Loans : CreateLedgerAndValuation(pid)
    \/ Tick

SpecTracking == Init /\ [][NextTracking]_vars

\* ------------------------------------------------------------- ledger quantities

\* write({'quantity': q})
QuantityVals == {[quantity |-> q] : q \in (0 - 1)..2}

NextQuantity ==
    \/ \E row \in LedgerRows : LedgerCreate(row)
    \/ \E eid \in DOMAIN entries, vals \in QuantityVals : LedgerWrite(eid, vals)
    \/ \E eid \in DOMAIN entries : LedgerMarkReturned(eid, 1, "good")

SpecQuantity == InitLedger /\ [][NextQuantity]_vars

\* ------------------------------------------- resolutions and returns of one loan

\* loans with two rows, up to MaxStaleWizards forms on them, and returns linked to them
NextCompleted ==
    \/ CreateLoan(StaleMoves)
    \/ \E pid \in Originals : Validate(pid)
    \/ \E pid \in Loans : CreateLoanTracking(pid)
    \/ \E pid \in Loans : WriteLoanState(pid, "resolving")
    \/ \E pid \in Loans : OpenWizard(pid, MaxStaleWizards)
    \/ \E wid \in DOMAIN wizards :
          \E choice \in [DOMAIN wizards[wid].lines -> StaleChoices] : Submit(wid, choice)
    \/ \E orig \in Loans, qty \in 1..2 : CreateLinkedReturn(orig, "pn", 0, qty)
    \/ \E rid \in DOMAIN pickings : ValidateReturn(rid)

SpecCompleted == Init /\ [][NextCompleted]_vars

\* ---------------------------------------------------------------- partial sales

\* the rows entered in the ledger: one or two untracked units, or a serial
PartialRows ==
    {row \in ActiveRows :
        \/ row.product = "pn" /\ row.lot = 0
        \/ row.product = "ps" /\ row.lot = 1 /\ row.quantity = 1}

\* one or two units of a line bought, or the line kept
PartialEntries ==
    { [resolution_type |-> "buy", unit_price |-> 1, return_condition |-> "good",
       qty_to_resolve |-> q] : q \in 1..2 }
    \cup { [resolution_type |-> "keep_loan", unit_price |-> 0, return_condition |-> "good",
            qty_to_resolve |-> 1] }

NextPartial ==
    \/ \E row \in PartialRows : RecordLoan(row)
    \/ \E pid \in Loans : OpenWizard(pid, MaxWizards)
    \/ \E wid \in DOMAIN wizards :
          \E entry \in [DOMAIN wizards[wid].lines -> PartialEntries] : SubmitForm(wid, entry)

SpecPartial == InitSales /\ [][NextPartial]_vars

\* ------------------------------------------------- returns against a mixed ledger

\* a validated loan of partner 1 with the given moves
DoneLoan(moves, ls) ==
    [BaseValidate(NewPicking(PickingVals(
                      [type_loan_wh |-> FALSE, is_loan |-> TRUE, partner |-> 1],
                      moves, 0), 1), 1)
        EXCEPT !.loan_state = ls]

\* a ledger row of loan pid as _create_tracking_details leaves it
LoanRow(pid, prod, lot, q) ==
    [picking |-> pid, product |-> prod, lot |-> lot, quantity |-> q, status |-> "active",
     loan_date |-> 1, resolution_date |-> 0, sale_line |-> 0, sale_price |-> 0,
     return_picking |-> 0, notes |-> ""]

\* two loans: the first with two untracked units on loan, one sold and a serial on
\* loan; the second with one untracked unit on loan
InitFrame ==
    /\ pickings \in {<<DoneLoan(<<Move("pn", 0, 3), Move("ps", 1, 1)>>, ls),
                        DoneLoan(<<Move("pn", 0, 1)>>, "in_trial")>> :
                         ls \in {"active", "in_trial", "partially_resolved"}}
    /\ entries = << LoanRow(1, "pn", 0, 2),
                    [LoanRow(1, "pn", 0, 1) EXCEPT !.status = "sold", !.sale_line = 1,
                                                   !.sale_price = 1, !.resolution_date = 1],
                    LoanRow(1, "ps", 1, 1),
                    LoanRow(2, "pn", 0, 1) >>
    /\ sale_lines = <<[order |-> 1, partner |-> 1, product |-> "pn", qty |-> 1,
                       price |-> 1, lot |-> 0]>>
    /\ wizards = <<>>
    /\ activities = <<>>
    /\ now = 1
    /\ todo_matches = FALSE
    /\ locations = NoLocations
    /\ last = Outcome("init", Ok(DB), 0, 0, "", "", <<>>)

NextFrame ==
    \/ \E orig \in Loans, qty \in 1..3 : CreateLinkedReturn(orig, "pn", 0, qty)
    \/ \E orig \in Loans, lot \in 1..2 : CreateLinkedReturn(orig, "ps", lot, 1)
    \/ \E rid \in DOMAIN pickings : ValidateReturn(rid)
    \/ \E pid \in Loans : WriteLoanState(pid, "resolving")
    \/ Tick

SpecFrame == InitFrame /\ [][NextFrame]_vars

\* ------------------------------------------------------------------- claims

\* C1: on a transfer flagged is_loan, a write of loan_state from s to t succeeds
\* exactly for the eight pairs of the transition table; every other write fails with
\* a validation error naming s and t and leaves loan_state at s.
C1_TransitionTable ==
    (last.op = "write_loan_state" /\ last.info.is_loan) =>
        IF <<last.src, last.tgt>> \in
               { <<"active", "in_trial">>, <<"active", "resolving">>,
                 <<"in_trial", "resolving">>, <<"in_trial", "completed">>,
                 <<"resolving", "partially_resolved">>, <<"resolving", "completed">>,
                 <<"partially_resolved", "resolving">>, <<"partially_resolved", "completed">> }
        THEN last.ok /\ pickings[last.pid].loan_state = last.tgt
        ELSE /\ ~last.ok
             /\ last.err.kind = "ValidationError"
             /\ last.err.src = last.src /\ last.err.tgt = last.tgt
             /\ pickings[last.pid].loan_state = last.src

\* a self-transition was requested on a loan and refused
C1_Witness ==
    /\ last.op = "write_loan_state" /\ last.info.is_loan
    /\ last.src = "in_trial" /\ last.tgt = "in_trial" /\ ~last.ok

\* C2 (as amended): on a transfer flagged is_loan, the write completed -> active fails
\* with a validation error citing both states and loan_state stays completed.
C2_CompletedTerminalOnLoans ==
    (/\ last.op = "write_loan_state" /\ last.info.is_loan
     /\ last.src = "completed" /\ last.tgt = "active") =>
        /\ ~last.ok
        /\ last.err.kind = "ValidationError"
        /\ last.err.src = "completed" /\ last.err.tgt = "active"
        /\ pickings[last.pid].loan_state = "completed"

\* completed -> active was requested on a loan and refused
C2_Witness ==
    /\ last.op = "write_loan_state" /\ last.info.is_loan
    /\ last.src = "completed" /\ last.tgt = "active" /\ ~last.ok

\* C2 as stated: completed -> active fails on any transfer, flagged is_loan or not.
C2_CompletedTerminalEverywhere ==
    (last.op = "write_loan_state" /\ last.src = "completed" /\ last.tgt = "active") =>
        /\ ~last.ok
        /\ last.err.kind = "ValidationError"
        /\ pickings[last.pid].loan_state = "completed"

\* C3 as stated: a loan of three units of an untracked product, validated and still
\* active, resolved as one unit bought, one returned, one kept: the submission goes
\* through, one entry is sold, one pending_resolution, one active, and the loan is
\* partially_resolved.
C3_RoundTrip ==
    (/\ last.op = "submit" /\ last.src = "active"
     /\ Len(last.info.lines) = 3
     /\ \A i \in DOMAIN last.info.lines :
           last.info.lines[i].product = "pn" /\ last.info.lines[i].qty_to_resolve = 1
     /\ {last.info.lines[i].resolution_type : i \in DOMAIN last.info.lines}
           = {"buy", "return", "keep_loan"}) =>
        /\ last.ok
        /\ \A st \in {"sold", "pending_resolution", "active"} :
              Cardinality({i \in DOMAIN last.info.lines :
                              entries[last.info.lines[i].entry].status = st}) = 1
        /\ pickings[last.pid].loan_state = "partially_resolved"

\* C4 as stated: the only unit of a loan, serial-tracked, is returned damaged; once
\* the return transfer is done the entry is returned_damaged with a resolution_date
\* and the loan is completed.
C4_DamagedReturn ==
    \A w \in DOMAIN wizards :
        (/\ wizards[w].submitted
         /\ Len(wizards[w].lines) = 1
         /\ Tracking(wizards[w].lines[1].product) = "serial"
         /\ wizards[w].lines[1].resolution_type = "return"
         /\ wizards[w].lines[1].return_condition = "damaged"
         /\ wizards[w].return_picking # 0
         /\ pickings[wizards[w].return_picking].state = "done") =>
            /\ entries[wizards[w].lines[1].entry].status = "returned_damaged"
            /\ entries[wizards[w].lines[1].entry].resolution_date # 0
            /\ pickings[wizards[w].picking].loan_state = "completed"

\* C5 as stated: a submission on a loan that is active or in_trial goes through and
\* leaves the loan partially_resolved when a line keeps the loan, completed otherwise.
C5_SubmissionSetsState ==
    (/\ last.op = "submit" /\ last.src \in {"active", "in_trial"}
     /\ last.info.lines # <<>>) =>
        /\ last.ok
        /\ pickings[last.pid].loan_state =
              IF \E i \in DOMAIN last.info.lines :
                    last.info.lines[i].resolution_type = "keep_loan"
              THEN "partially_resolved" ELSE "completed"

\* C6 as stated: an entry a submission marked pending_resolution is returned_* once
\* the return transfer of that submission is done, and pending_resolution until then.
C6_PendingUntilReturnDone ==
    \A w \in DOMAIN wizards : \A i \in DOMAIN wizards[w].lines :
        (/\ wizards[w].submitted
         /\ wizards[w].return_picking # 0
         /\ wizards[w].lines[i].resolution_type = "return") =>
            IF pickings[wizards[w].return_picking].state = "done"
            THEN entries[wizards[w].lines[i].entry].status \in Returned
            ELSE entries[wizards[w].lines[i].entry].status = "pending_resolution"

\* C7 as stated: a run of the overdue sweep that directly follows another run
\* creates no activity.
C7_SecondRunCreatesNothing ==
    (last.op = "cron" /\ last.info.repeated) => last.info.created = 0

\* the tracking rules the code keeps: a serial entry has a lot and quantity 1, a
\* lot-tracked entry has a lot, an entry is untracked exactly when it has no lot
TrackingRulesHold(e) ==
    /\ Tracking(e.product) = "serial" => (e.lot # 0 /\ e.quantity = 1)
    /\ Tracking(e.product) = "lot" => e.lot # 0
    /\ Tracking(e.product) = "none" <=> e.lot = 0

\* C8 (as amended): every entry has a lot and quantity 1 when its product is serial,
\* has a lot when its product is lot-tracked, and has no lot exactly when its product
\* is untracked; a create or write whose result would break this is rejected with a
\* validation error.
C8_TrackingConsistency ==
    /\ \A i \in DOMAIN entries : TrackingRulesHold(entries[i])
    /\ (last.op \in {"ledger_create", "ledger_write"} /\ ~TrackingRulesHold(last.info.e))
          => (~last.ok /\ last.err.kind = "ValidationError")

\* a write that would leave a serial entry with quantity 2 was rejected
C8_Witness ==
    /\ last.op = "ledger_write" /\ ~last.ok /\ last.err.msg = "serial_qty"
    /\ \E i \in DOMAIN entries : Tracking(entries[i].product) = "serial"

\* C8 as stated: serial <=> (lot and quantity 1), lot-tracked <=> lot, untracked <=>
\* no lot, on every entry.
C8_TrackingEquivalences ==
    \A i \in DOMAIN entries :
        /\ Tracking(entries[i].product) = "serial"
              <=> (entries[i].lot # 0 /\ entries[i].quantity = 1)
        /\ Tracking(entries[i].product) = "lot" <=> entries[i].lot # 0
        /\ Tracking(entries[i].product) = "none" <=> entries[i].lot = 0

\* a sold entry names its sale order line, a returned one its return transfer
ReferencesHold(e) ==
    /\ e.status = "sold" => e.sale_line # 0
    /\ e.status \in Returned => e.return_picking # 0

\* C9: every sold entry has a sale order line and every returned_* entry a return
\* transfer; a create, write, mark-sold or mark-returned whose result would lack the
\* reference is rejected.
C9_ResolutionReferences ==
    /\ \A i \in DOMAIN entries : ReferencesHold(entries[i])
    /\ (/\ last.op \in {"ledger_create", "ledger_write", "mark_sold", "mark_returned"}
        /\ ~ReferencesHold(last.info.e)) => ~last.ok

\* an entry was marked returned without a return transfer and the operation rejected
C9_Witness ==
    /\ last.op = "mark_returned" /\ ~last.ok
    /\ last.err.msg = "returned_needs_return_picking"

\* C10 as stated: an entry that was sold (mark-sold recorded its sale order line) is
\* sold in every later state.
C10_SoldStaysSold ==
    \A i \in DOMAIN entries : entries[i].sale_line # 0 => entries[i].status = "sold"

\* C11 as stated: resolution_date is empty on an active entry, and an operation
\* on an entry that already has a resolution_date (a pending_resolution entry that
\* is marked returned) leaves that date as it was.
C11_ResolutionDateKept ==
    /\ \A i \in DOMAIN entries :
          entries[i].status = "active" => entries[i].resolution_date = 0
    /\ (/\ last.op \in {"ledger_write", "mark_sold", "mark_returned"}
        /\ last.info.before.resolution_date # 0) =>
          entries[last.info.eid].resolution_date = last.info.before.resolution_date

\* C12: mark-sold with a sale order line on an active entry makes it sold, stores
\* the line and the price (the one passed, else the line's) and stamps
\* resolution_date; on an entry of any other status it raises a usage error and the
\* entry is as before.
C12_MarkSold ==
    (last.op = "mark_sold") =>
        IF last.info.before.status = "active"
        THEN last.info.sale_line # 0 =>
                /\ last.ok
                /\ entries[last.info.eid] =
                      [last.info.before EXCEPT
                          !.status = "sold",
                          !.sale_line = last.info.sale_line,
                          !.sale_price = IF last.info.sale_price # 0
                                         THEN last.info.sale_price
                                         ELSE sale_lines[last.info.sale_line].price,
                          !.resolution_date = now]
        ELSE /\ ~last.ok
             /\ last.err.kind = "UserError"
             /\ entries[last.info.eid] = last.info.before

\* an active entry was marked sold at the price of its sale order line
C12_Witness ==
    /\ last.op = "mark_sold" /\ last.ok
    /\ last.info.before.status = "active" /\ last.info.sale_price = 0
    /\ entries[last.info.eid].status = "sold"
    /\ entries[last.info.eid].sale_price = 1

\* C13: mark-returned with a return transfer succeeds exactly on an entry that is
\* active or pending_resolution, and then the entry is returned_good,
\* returned_damaged or returned_defective for condition good, damaged or defective
\* and names the return transfer; on a sold or returned entry it raises a usage
\* error and the entry is as before.
C13_MarkReturned ==
    (last.op = "mark_returned") =>
        IF last.info.before.status \in {"active", "pending_resolution"}
        THEN last.info.return_picking # 0 =>
                /\ last.ok
                /\ entries[last.info.eid].status =
                      (CASE last.info.condition = "good" -> "returned_good"
                         [] last.info.condition = "damaged" -> "returned_damaged"
                         [] last.info.condition = "defective" -> "returned_defective")
                /\ entries[last.info.eid].return_picking = last.info.return_picking
        ELSE /\ ~last.ok
             /\ last.err.kind = "UserError"
             /\ entries[last.info.eid] = last.info.before

\* a pending_resolution entry was marked returned as defective
C13_Witness ==
    /\ last.op = "mark_returned" /\ last.ok
    /\ last.info.before.status = "pending_resolution"
    /\ last.info.condition = "defective"
    /\ entries[last.info.eid].status = "returned_defective"

\* C14 as stated: a loan that button_validate brought to done with a confirmed
\* quantity has ledger rows.
C14_ValidatedLoanHasRows ==
    (last.op = "validate" /\ last.ok /\ last.pid \in Loans
     /\ \E i \in DOMAIN pickings[last.pid].moves : pickings[last.pid].moves[i].qty_done > 0)
        => EntriesOf(DB, last.pid) # {}

C16_BypassHasReason ==
    \A pid \in DOMAIN pickings :
        (pickings[pid].is_loan /\ pickings[pid].bypass) => pickings[pid].bypass_reason # ""

\* what the pre-submit validation asks of one line
LineIsValid(l) ==
    /\ l.resolution_type # ""
    /\ l.qty_to_resolve > 0 /\ l.qty_to_resolve <= l.loaned_qty
    /\ l.resolution_type = "buy" => l.unit_price > 0
    /\ Tracking(l.product) = "serial" => l.qty_to_resolve = 1

\* C17: a submission with a line that has no decision, a quantity that is not
\* positive or exceeds the loaned quantity, a buy line without a positive price, or
\* a serial-tracked line whose quantity is not 1, is rejected by the validation
\* itself (not by a processing step) and leaves transfers, ledger and sale lines as
\* they were.
C17_InvalidSubmissionRejected ==
    (last.op = "submit_form"
     /\ \E i \in DOMAIN last.info.lines : ~LineIsValid(last.info.lines[i])) =>
        /\ ~last.ok
        /\ last.err.cause = ""
        /\ DB = last.info.before

\* a serial-tracked line was submitted with quantity 2, every other line being valid
C17_Witness ==
    /\ last.op = "submit_form" /\ ~last.ok
    /\ \E i \in DOMAIN last.info.lines :
          /\ Tracking(last.info.lines[i].product) = "serial"
          /\ last.info.lines[i].qty_to_resolve = 2
          /\ last.info.lines[i].resolution_type = "return"
          /\ \A j \in DOMAIN last.info.lines \ {i} : LineIsValid(last.info.lines[j])

\* C18 as stated: asking to resolve a loan whose transfer is not done, or submitting
\* a resolution for it, is refused with an error.
C18_IncompleteTransferRefused ==
    (last.op \in {"resolve_loan_trial", "submit"} /\ pickings[last.pid].state # "done") =>
        ~last.ok /\ last.err.kind = "UserError"

\* C19 as stated: a search on a partner statistic finds exactly the partners whose
\* computed statistic satisfies the operator and the value.
C19_SearchMatchesCompute ==
    last.op = "search" =>
        last.info.found =
            {p \in PartnerIds :
                LET x == ComputeLoanStats(DB, p)[last.info.stat]
                    v == last.info.value
                IN \/ last.info.operator = "=" /\ x = v
                   \/ last.info.operator = "!=" /\ x # v
                   \/ last.info.operator = ">" /\ x > v
                   \/ last.info.operator = ">=" /\ x >= v
                   \/ last.info.operator = "<" /\ x < v
                   \/ last.info.operator = "<=" /\ x <= v}

\* the ledger rows a call of get_loan_analytics with the filters of `last` matches
C20_Matching ==
    {i \in DOMAIN entries :
        /\ last.info.date_from = 0 \/ entries[i].loan_date >= last.info.date_from
        /\ last.info.date_to = 0 \/ entries[i].loan_date <= last.info.date_to
        /\ last.info.partner_ids = {}
           \/ pickings[entries[i].picking].partner \in last.info.partner_ids}

\* C20: get_loan_analytics never fails with a division by zero; with no matching
\* row every count, conversion_rate and avg_days_in_loan are 0; with matching rows
\* conversion_rate is (sold rows / matching rows) x 100.
C20_Analytics ==
    last.op = "analytics" =>
        /\ last.ok
        /\ LET a == last.info.result
               sold == Cardinality({i \in C20_Matching : entries[i].status = "sold"})
           IN IF C20_Matching = {}
              THEN /\ a.conversion_rate.num = 0 /\ a.avg_days_in_loan.num = 0
                   /\ a.total_loans = 0 /\ a.active_loans = 0 /\ a.overdue_loans = 0
                   /\ a.sold_conversions = 0 /\ a.returns_good = 0 /\ a.returns_damaged = 0
              ELSE /\ a.conversion_rate.den # 0
                   /\ a.conversion_rate.num * Cardinality(C20_Matching)
                        = sold * 100 * a.conversion_rate.den

\* the analytics were asked for with filters that no row of a non-empty ledger matches
C20_Witness ==
    /\ last.op = "analytics" /\ last.ok
    /\ entries # <<>> /\ C20_Matching = {}
    /\ last.info.result.conversion_rate.num = 0

\* C21: a run of the retention sweep returns the number of rows in a terminal
\* status resolved more than 730 days before, and neither it nor a run of the
\* overdue sweep changes a ledger row or a transfer (its loan_state included).
C21_SweepsLeaveLedger ==
    [][(last'.op \in {"cleanup", "cron"}) =>
          /\ entries' = entries
          /\ pickings' = pickings
          /\ last'.op = "cleanup" =>
                last'.info.count =
                    Cardinality({i \in DOMAIN entries :
                        /\ entries[i].status \in {"sold", "returned_good",
                                                   "returned_damaged", "returned_defective"}
                        /\ entries[i].resolution_date < now - 730})]_vars

\* the retention sweep ran a second time in a row and found rows old enough
C21_Witness ==
    /\ last.op = "cleanup" /\ last.info.repeated /\ last.info.count = 2
    /\ Len(entries) = 3

\* the active rows of the returned product on the original loan before the
\* reconciliation of `last`, in listing order
C22_Listed ==
    Listing([DB EXCEPT !.entries = last.info.before],
            {i \in DOMAIN last.info.before :
                /\ last.info.before[i].picking = last.info.orig
                /\ last.info.before[i].status = "active"
                /\ last.info.before[i].product = last.info.move.product})

\* the quantity of the rows listed before position k
RECURSIVE QtyAhead(_, _, _)
QtyAhead(b, L, k) == IF k = 1 THEN 0 ELSE QtyAhead(b, L, k - 1) + b[L[k - 1]].quantity

\* C22: a validated return of R units of a non-serial product consumes the active
\* rows of that product in listing order: a row that fits in what remains is marked
\* returned_good whole; the first row that does not fit is split into a new
\* returned_good row of the remaining quantity and the original, still active,
\* shrunk by it; rows after that, and every other row, are unchanged.
C22_GreedyConsumption ==
    (/\ last.op = "validate_return" /\ last.ok
     /\ Tracking(last.info.move.product) # "serial"
     /\ last.info.move.qty_done > 0) =>
        LET b == last.info.before
            L == C22_Listed
            R == last.info.move.qty_done
            split == \E k \in DOMAIN L :
                        QtyAhead(b, L, k) < R /\ QtyAhead(b, L, k) + b[L[k]].quantity > R
        IN /\ Len(entries) = Len(b) + (IF split THEN 1 ELSE 0)
           /\ \A i \in DOMAIN b : (\A k \in DOMAIN L : L[k] # i) => entries[i] = b[i]
           /\ \A k \in DOMAIN L :
                 IF QtyAhead(b, L, k) + b[L[k]].quantity <= R
                 THEN /\ entries[L[k]].status = "returned_good"
                      /\ entries[L[k]].quantity = b[L[k]].quantity
                      /\ entries[L[k]].return_picking = last.pid
                 ELSE IF QtyAhead(b, L, k) < R
                 THEN /\ entries[L[k]].status = "active"
                      /\ entries[L[k]].quantity = b[L[k]].quantity - (R - QtyAhead(b, L, k))
                      /\ entries[Len(entries)].status = "returned_good"
                      /\ entries[Len(entries)].quantity = R - QtyAhead(b, L, k)
                      /\ entries[Len(entries)].product = b[L[k]].product
                      /\ entries[Len(entries)].picking = b[L[k]].picking
                      /\ entries[Len(entries)].return_picking = last.pid
                 ELSE entries[L[k]] = b[L[k]]

\* two units were returned against rows of one and two units: the first listed row
\* was returned whole and the second was split
C22_Witness ==
    /\ last.op = "validate_return" /\ last.ok
    /\ last.info.move.product = "pn" /\ last.info.move.qty_done = 2
    /\ Len(C22_Listed) = 2
    /\ last.info.before[C22_Listed[1]].quantity = 1
    /\ last.info.before[C22_Listed[2]].quantity = 2
    /\ Len(entries) = Len(last.info.before) + 1

\* C23 as stated: the validation of a linked return never fails, and after it the
\* loan is completed when no row of it is active, partially_resolved when some but
\* not all are, and in its former loan_state when all are.
C23_LoanStateAfterReturn ==
    last.op = "validate_return" =>
        /\ last.ok
        /\ pickings[last.info.orig].loan_state =
              IF ActiveOf(DB, last.info.orig) = {} THEN "completed"
              ELSE IF Cardinality(ActiveOf(DB, last.info.orig))
                        < Cardinality(EntriesOf(DB, last.info.orig))
              THEN "partially_resolved"
              ELSE last.src

\* C24: a validated return of a serial with its lot marks returned_good, with the
\* return transfer as reference, exactly the active rows of the original loan with
\* that product and lot; every other row is unchanged.
C24_SerialReturn ==
    (/\ last.op = "validate_return" /\ last.ok
     /\ Tracking(last.info.move.product) = "serial"
     /\ last.info.move.lot # 0 /\ last.info.move.qty_done > 0) =>
        /\ Len(entries) = Len(last.info.before)
        /\ \A i \in DOMAIN last.info.before :
              entries[i] =
                 IF /\ last.info.before[i].picking = last.info.orig
                    /\ last.info.before[i].product = last.info.move.product
                    /\ last.info.before[i].lot = last.info.move.lot
                    /\ last.info.before[i].status = "active"
                 THEN [last.info.before[i] EXCEPT !.status = "returned_good",
                                                  !.return_picking = last.pid,
                                                  !.resolution_date = now]
                 ELSE last.info.before[i]

\* serial 1 of one loan was returned while serial 2 of that loan and serial 1 of
\* another loan stay active
C24_Witness ==
    /\ last.op = "validate_return" /\ last.ok /\ last.info.move.product = "ps"
    /\ \E i, j, k \in DOMAIN entries :
          /\ entries[i].picking = last.info.orig /\ entries[i].lot = last.info.move.lot
          /\ entries[i].product = "ps" /\ entries[i].status = "returned_good"
          /\ entries[j].picking = last.info.orig /\ entries[j].lot # last.info.move.lot
          /\ entries[j].product = "ps" /\ entries[j].status = "active"
          /\ entries[k].picking # last.info.orig /\ entries[k].lot = last.info.move.lot
          /\ entries[k].product = "ps" /\ entries[k].status = "active"

\* C25 as stated: a submission with a return line on a loan of a loan-warehouse
\* type succeeds, creates one confirmed return transfer with one move per return
\* line carrying its quantity and lot, and leaves the rows of the return lines
\* pending_resolution.
C25_ReturnTransferCreated ==
    (/\ last.op = "submit" /\ pickings[last.pid].type_loan_wh
     /\ LinesOfType(last.info.lines, "return") # <<>>) =>
        /\ last.ok
        /\ wizards[last.wid].return_picking # 0
        /\ LET rl == LinesOfType(last.info.lines, "return")
               rp == pickings[wizards[last.wid].return_picking]
           IN /\ rp.state = "confirmed"
              /\ Len(rp.moves) = Len(rl)
              /\ \A i \in DOMAIN rl :
                    /\ rp.moves[i].product = rl[i].product
                    /\ rp.moves[i].qty = rl[i].qty_to_resolve
                    /\ rp.moves[i].lot = rl[i].lot
                    /\ entries[rl[i].entry].status = "pending_resolution"

\* the sale order lines of the newest order
C26_NewLines ==
    {i \in DOMAIN sale_lines : \A j \in DOMAIN sale_lines : sale_lines[j].order <= sale_lines[i].order}

\* C26 as stated: a submission with a buy line succeeds, creates one order with one
\* line per group of buy lines (product, price, and lot for serials), and leaves the
\* row of every buy line sold, with a line of that order for the same product and
\* with the line's unit price.
C26_SalesCreated ==
    (last.op = "submit" /\ LinesOfType(last.info.lines, "buy") # <<>>) =>
        LET bl == LinesOfType(last.info.lines, "buy")
        IN /\ last.ok
           /\ Cardinality(C26_NewLines) = Cardinality({GroupKey(bl[i]) : i \in DOMAIN bl})
           /\ \A i \in DOMAIN bl :
                 /\ entries[bl[i].entry].status = "sold"
                 /\ entries[bl[i].entry].sale_line \in C26_NewLines
                 /\ sale_lines[entries[bl[i].entry].sale_line].product = bl[i].product
                 /\ entries[bl[i].entry].sale_price = bl[i].unit_price

\* C27: the row of every keep_loan line of a submission is what it was before the
\* submission, but for its notes, which are the extension note once the submission
\* went through.
C27_KeptRowsUnchanged ==
    last.op = "submit_form" =>
        \A i \in DOMAIN last.info.lines :
            last.info.lines[i].resolution_type = "keep_loan" =>
                entries[last.info.lines[i].entry] =
                    [last.info.before.entries[last.info.lines[i].entry]
                        EXCEPT !.notes = IF last.ok THEN "extended" ELSE @]

\* a submission with a kept line and a bought line went through
C27_Witness ==
    /\ last.op = "submit_form" /\ last.ok
    /\ \E i, j \in DOMAIN last.info.lines :
          /\ last.info.lines[i].resolution_type = "keep_loan"
          /\ entries[last.info.lines[i].entry].status = "active"
          /\ entries[last.info.lines[i].entry].notes = "extended"
          /\ last.info.lines[j].resolution_type = "buy"
          /\ entries[last.info.lines[j].entry].status = "sold"

\* C28: a submission that passed the validation and failed in one of its steps
\* fails with one UserError that carries the error raised as its cause; at the point
\* of the failure the effects of the steps that ran are all in place (when the
\* loan_state write is the step that failed: the rows of the buy lines sold with the
\* new order's lines, the return transfer created and its rows pending_resolution,
\* the rows of the kept lines in the status they had).
C28_FailureWrapped ==
    (last.op = "submit_form" /\ ~last.ok /\ last.info.lines # <<>>) =>
        /\ last.err.kind = "UserError"
        /\ last.err.cause \in {"ValidationError", "UserError"}
        /\ last.err.msg = "transition" =>
              /\ \A i \in DOMAIN last.info.lines :
                    last.info.reached.entries[last.info.lines[i].entry].status =
                        CASE last.info.lines[i].resolution_type = "buy" -> "sold"
                          [] last.info.lines[i].resolution_type = "return" -> "pending_resolution"
                          [] OTHER -> last.info.before.entries[last.info.lines[i].entry].status
              /\ LinesOfType(last.info.lines, "buy") # <<>> =>
                    Len(last.info.reached.sale_lines) > Len(last.info.before.sale_lines)
              /\ LinesOfType(last.info.lines, "return") # <<>> =>
                    Len(last.info.reached.pickings) = Len(last.info.before.pickings) + 1
              /\ LinesOfType(last.info.lines, "keep_loan") # <<>> =>
                    \A i \in DOMAIN last.info.lines :
                        last.info.lines[i].resolution_type = "keep_loan" =>
                            last.info.reached.entries[last.info.lines[i].entry].notes = "extended"

\* a submission with a bought and a returned line failed in the loan_state write,
\* the transition check's ValidationError reaching the caller as a UserError
C28_Witness ==
    /\ last.op = "submit_form" /\ ~last.ok
    /\ last.err.kind = "UserError" /\ last.err.cause = "ValidationError"
    /\ last.err.msg = "transition"
    /\ LinesOfType(last.info.lines, "buy") # <<>>
    /\ LinesOfType(last.info.lines, "return") # <<>>
    /\ last.info.reached.sale_lines # <<>>

\* C29: a confirmation or a write during which the recomputation of the derived
\* quantities fails has the result, and leaves the stored state, it has when the
\* recomputation goes through.
C29_RecalculationSwallowed ==
    (last.op \in {"validate_recalc", "write_recalc"} /\ last.info.fails) =>
        /\ last.info.result = last.info.undisturbed
        /\ last.ok = last.info.undisturbed.ok
        /\ last.ok => DB = last.info.undisturbed.db

\* a loan was confirmed while the recomputation failed
C29_Witness ==
    /\ last.op = "validate_recalc" /\ last.info.fails /\ last.ok
    /\ pickings[last.pid].is_loan /\ pickings[last.pid].state = "done"

\* C30: a transfer created with a type of a loan warehouse and a partner is flagged
\* as a loan, and its destination and that of its movement lines are the partner's
\* dedicated location when the partner has at least 3 loans created in the trailing
\* 365 days, and the shared temporary-loans location otherwise.
C30_LoanLocation ==
    (last.op = "create_located" /\ last.ok /\ last.info.type_loan_wh) =>
        /\ pickings[last.pid].is_loan
        /\ pickings[last.pid].dest = pickings[last.pid].moves_dest
        /\ pickings[last.pid].dest =
              IF LoanFrequency(DB, last.pid, now) >= 3
              THEN [kind |-> "dedicated", partner |-> pickings[last.pid].partner]
              ELSE [kind |-> "shared", partner |-> 0]

\* the movement lines of transfer pid that have a confirmed quantity
ConfirmedMoves(pid) ==
    {i \in DOMAIN pickings[pid].moves : pickings[pid].moves[i].qty_done > 0}

\* C31: creating the ledger rows of a transfer goes through without an error and
\* leaves, per movement line with a confirmed quantity, one active row: of quantity 1
\* with the serial for a serial product, of the confirmed quantity otherwise; a line
\* without confirmed quantity gives no row; every row satisfies the tracking rules.
C31_RowsPerLine ==
    last.op = "create_rows" =>
        /\ last.ok
        /\ Cardinality(EntriesOf(DB, last.pid)) = Cardinality(ConfirmedMoves(last.pid))
        /\ \A i \in ConfirmedMoves(last.pid) :
              \E e \in DOMAIN entries :
                 /\ entries[e].picking = last.pid /\ entries[e].status = "active"
                 /\ entries[e].product = pickings[last.pid].moves[i].product
                 /\ entries[e].quantity =
                       IF Tracking(entries[e].product) = "serial" THEN 1
                       ELSE pickings[last.pid].moves[i].qty_done
                 /\ Tracking(entries[e].product) = "serial" =>
                       entries[e].lot = pickings[last.pid].moves[i].lot
        /\ \A e \in DOMAIN entries : TrackingRulesHold(entries[e])

\* C32: the valuation rows created for a transfer match the ledger rows created for
\* it: for every product and lot there are as many of the one as of the other, none
\* for a movement line without confirmed quantity.
C32_ValuationMirrorsLedger ==
    (last.op = "create_rows" /\ last.ok) =>
        \A prod \in Products, lot \in 0..2 :
            Cardinality({v \in DOMAIN last.info.valuation :
                            /\ last.info.valuation[v].product = prod
                            /\ last.info.valuation[v].lot = lot})
            = Cardinality({e \in EntriesOf(DB, last.pid) :
                            entries[e].product = prod /\ entries[e].lot = lot})

\* the ledger before the reconciliation of `last`, and the active rows of the
\* returned product on the original loan in it
C33_Before == [DB EXCEPT !.entries = last.info.before]

C33_Searched ==
    {i \in DOMAIN last.info.before :
        /\ last.info.before[i].picking = last.info.orig
        /\ last.info.before[i].status = "active"
        /\ last.info.before[i].product = last.info.move.product}

\* C33: the reconciliation of a validated return is reproducible: run again on a
\* copy of the ledger it started from, with the rows in any order the search may
\* list them in, it consumes the rows in the order of the ledger's listing and ends
\* with the same rows, statuses and quantities.
C33_Reproducible ==
    (/\ last.op = "validate_return" /\ last.ok
     /\ Tracking(last.info.move.product) # "serial"
     /\ last.info.move.qty_done > 0) =>
        \A L \in Listings(C33_Before, C33_Searched) :
            /\ L = Listing(C33_Before, C33_Searched)
            /\ ConsumeReturned(C33_Before, L, last.info.move.qty_done, last.pid, now).db.entries
                  = entries

\* a return of one unit met two active rows of one loan_date, listed by id
C33_Witness ==
    /\ last.op = "validate_return" /\ last.ok
    /\ last.info.move.product = "pn" /\ last.info.move.qty_done = 1
    /\ Cardinality(C33_Searched) = 2
    /\ \A i, j \in C33_Searched :
          last.info.before[i].loan_date = last.info.before[j].loan_date
    /\ \E i, j \in C33_Searched : last.info.before[i].quantity # last.info.before[j].quantity
    /\ entries # last.info.before

\* C34: the form that action_resolve_loan_trial opens for a loan has one line per
\* active ledger row of the loan and none for another row, each with keep_loan and
\* with the row's quantity as loaned and as to-resolve quantity.
C34_OneLinePerActiveRow ==
    (last.op = "resolve_loan_trial" /\ last.ok) =>
        /\ Len(wizards[last.wid].lines) = Cardinality(ActiveOf(DB, last.pid))
        /\ \A e \in ActiveOf(DB, last.pid) :
              \E i \in DOMAIN wizards[last.wid].lines :
                 /\ wizards[last.wid].lines[i].entry = e
                 /\ wizards[last.wid].lines[i].resolution_type = "keep_loan"
                 /\ wizards[last.wid].lines[i].loaned_qty = entries[e].quantity
                 /\ wizards[last.wid].lines[i].qty_to_resolve = entries[e].quantity

\* C35: every ledger row has a quantity above zero, whatever was created or written.
C35_QuantityPositive ==
    \A e \in DOMAIN entries : entries[e].quantity > 0

\* the total quantity of the rows of ledger b that belong to loan `orig`, are of
\* product `prod` and have one of the statuses `sts`
RECURSIVE QtyFrom(_, _, _, _, _)
QtyFrom(b, k, orig, prod, sts) ==
    IF k = 0 THEN 0
    ELSE QtyFrom(b, k - 1, orig, prod, sts)
         + (IF b[k].picking = orig /\ b[k].product = prod /\ b[k].status \in sts
            THEN b[k].quantity ELSE 0)

Least(a, b) == IF a <= b THEN a ELSE b

\* C36: the reconciliation of a confirmed return with a returned quantity goes
\* through without an error and conserves quantity: per product the rows of the
\* original loan add up to what they did before, and the quantity that went from
\* active to returned_good is the smaller of the returned quantity and the active
\* quantity of that product on the loan.
C36_QuantityConserved ==
    (last.op = "validate_return" /\ last.info.move.qty_done > 0) =>
        /\ last.ok
        /\ \A prod \in Products :
              QtyFrom(entries, Len(entries), last.info.orig, prod, EntryStatuses)
              = QtyFrom(last.info.before, Len(last.info.before), last.info.orig, prod,
                        EntryStatuses)
        /\ QtyFrom(entries, Len(entries), last.info.orig, last.info.move.product,
                   {"returned_good"})
           - QtyFrom(last.info.before, Len(last.info.before), last.info.orig,
                     last.info.move.product, {"returned_good"})
           = Least(last.info.move.qty_done,
                   QtyFrom(last.info.before, Len(last.info.before), last.info.orig,
                           last.info.move.product, {"active"}))
        /\ QtyFrom(last.info.before, Len(last.info.before), last.info.orig,
                   last.info.move.product, {"active"})
           - QtyFrom(entries, Len(entries), last.info.orig, last.info.move.product,
                     {"active"})
           = Least(last.info.move.qty_done,
                   QtyFrom(last.info.before, Len(last.info.before), last.info.orig,
                           last.info.move.product, {"active"}))

RECURSIVE OrderedQty(_, _, _)
OrderedQty(sl, k, prod) ==
    IF k >= Len(sl) THEN 0
    ELSE OrderedQty(sl, k + 1, prod)
         + (IF sl[k + 1].product = prod THEN sl[k + 1].qty ELSE 0)

\* the quantity of the rows of product `prod` that are sold in ledger a and were not
\* in ledger b
RECURSIVE NewlySoldQty(_, _, _, _)
NewlySoldQty(a, b, k, prod) ==
    IF k = 0 THEN 0
    ELSE NewlySoldQty(a, b, k - 1, prod)
         + (IF a[k].product = prod /\ a[k].status = "sold" /\ b[k].status # "sold"
            THEN a[k].quantity ELSE 0)

\* C38: after a submission that went through, per product the quantity on the sale
\* order it created is the quantity of the ledger rows it marked sold, also when a
\* buy line resolves less than was loaned.
C38_SoldMatchesOrder ==
    (last.op = "submit_form" /\ last.ok) =>
        \A prod \in Products :
            OrderedQty(sale_lines, Len(last.info.before.sale_lines), prod)
            = NewlySoldQty(entries, last.info.before.entries,
                           Len(last.info.before.entries), prod)

\* C39: the reconciliation of a return changes no ledger row other than rows of the
\* original loan that were active and are of the product on the return, returned
\* with a quantity above zero: rows sold, returned or pending, rows of another
\* product and rows of another loan stay as they are.
C39_OnlyMatchingRowsChange ==
    last.op = "validate_return" =>
        /\ Len(entries) >= Len(last.info.before)
        /\ \A i \in DOMAIN last.info.before :
              entries[i] # last.info.before[i] =>
                 /\ last.info.before[i].picking = last.info.orig
                 /\ last.info.before[i].status = "active"
                 /\ last.info.before[i].product = last.info.move.product
                 /\ last.info.move.qty_done > 0

\* a return changed a row while the loan had a row not active, and another loan an
\* active row of the returned product
C39_Witness ==
    /\ last.op = "validate_return" /\ last.ok
    /\ \E i \in DOMAIN last.info.before : entries[i] # last.info.before[i]
    /\ \E i \in DOMAIN last.info.before :
          /\ last.info.before[i].picking = last.info.orig
          /\ last.info.before[i].status \in {"sold", "pending_resolution"}
    /\ \E i \in DOMAIN last.info.before :
          /\ last.info.before[i].picking # last.info.orig
          /\ last.info.before[i].status = "active"
          /\ last.info.before[i].product = last.info.move.product
    /\ \E i \in DOMAIN last.info.before :
          /\ last.info.before[i].picking = last.info.orig
          /\ last.info.before[i].status = "active"
          /\ last.info.before[i].product # last.info.move.product

\* at most one shared location and at most one dedicated location per partner
C40_AtMostOne ==
    /\ Cardinality({i \in DOMAIN locations.rows : locations.rows[i].kind = "shared"}) <= 1
    /\ \A p \in PartnerIds :
          Cardinality({i \in DOMAIN locations.rows :
                          /\ locations.rows[i].kind = "dedicated"
                          /\ locations.rows[i].partner = p}) <= 1

\* a partner's dedicated location, once set, stays the one it is
C40_Kept ==
    \A p \in PartnerIds :
        DedicatedOf(locations, p) # 0 => DedicatedOf(locations', p) = DedicatedOf(locations, p)

\* C40: whatever loan transfers are created, there is at most one shared
\* temporary-loans location and at most one dedicated location per partner, and the
\* dedicated location of a partner is never replaced once it is set.
C40_OneLocationEach == []C40_AtMostOne /\ [][C40_Kept]_vars

\* a partner with a dedicated location got a further loan at that location, and the
\* shared location exists too
C40_Witness ==
    /\ last.op = "create_located" /\ last.ok /\ last.info.type_loan_wh
    /\ pickings[last.pid].moves_dest.kind = "dedicated"
    /\ \E i \in DOMAIN pickings :
          /\ i # last.pid
          /\ pickings[i].moves_dest = pickings[last.pid].moves_dest
    /\ DedicatedOf(locations, pickings[last.pid].partner) # 0
    /\ \E i \in DOMAIN locations.rows : locations.rows[i].kind = "shared"
====
